---- MODULE Spec2Model ----
(***************************************************************************)
(* TokenFoundry: the token-graph resolution engine of the Figma plugin     *)
(* (src/code.ts).  Strings are sequences of one-character strings so that  *)
(* normalisation, substring tests and code-unit ordering are computed;     *)
(* JavaScript values are tagged records and JavaScript objects keep their  *)
(* property order.                                                         *)
(***************************************************************************)
EXTENDS Integers, Sequences, FiniteSets, TLC

(***************************************************************************)
(* Strings                                                                 *)
(***************************************************************************)

\* The characters used by the model, in ascending UTF-16 code-unit order.
Alphabet ==
  << " ", "#", "$", "-", ".", "/",
     "0", "1", "2", "3", "4", "5", "6", "7", "8", "9", ":",
     "A", "B", "C", "D", "E", "F", "G", "H", "I", "J", "K", "L", "M",
     "N", "O", "P", "Q", "R", "S", "T", "U", "V", "W", "X", "Y", "Z",
     "a", "b", "c", "d", "e", "f", "g", "h", "i", "j", "k", "l", "m",
     "n", "o", "p", "q", "r", "s", "t", "u", "v", "w", "x", "y", "z" >>

CharSet == { Alphabet[i] : i \in 1..Len(Alphabet) }

\* Position of a character in code-unit order.
CharRank == [ c \in CharSet |-> CHOOSE i \in 1..Len(Alphabet) : Alphabet[i] = c ]

UpperChars == { c \in CharSet : CharRank[c] >= CharRank["A"] /\ CharRank[c] <= CharRank["Z"] }

DigitChars == { c \in CharSet : CharRank[c] >= CharRank["0"] /\ CharRank[c] <= CharRank["9"] }

\* String.prototype.toLowerCase on one character.
LowerChar(c) ==
  IF c \in UpperChars THEN Alphabet[CharRank[c] - CharRank["A"] + CharRank["a"]] ELSE c

toLowerCase(s) == [ i \in 1..Len(s) |-> LowerChar(s[i]) ]

\* The default comparison of Array.prototype.sort: by UTF-16 code units.
StrLess(s, t) ==
  \E i \in 1..(Len(s) + 1) :
     /\ \A j \in 1..(i - 1) : j <= Len(t) /\ s[j] = t[j]
     /\ \/ i = Len(s) + 1 /\ Len(t) >= i
        \/ i <= Len(s) /\ i <= Len(t) /\ CharRank[s[i]] < CharRank[t[i]]

\* String.prototype.includes.
includes(s, sub) ==
  \E i \in 0..(Len(s) - Len(sub)) :
     \A j \in 1..Len(sub) : s[i + j] = sub[j]

\* String.prototype.split on a one-character separator (keeps empty pieces).
RECURSIVE split(_, _)
split(s, sep) ==
  IF \A i \in 1..Len(s) : s[i] # sep
  THEN << s >>
  ELSE LET i == CHOOSE k \in 1..Len(s) : s[k] = sep /\ \A j \in 1..(k - 1) : s[j] # sep
       IN  << SubSeq(s, 1, i - 1) >> \o split(SubSeq(s, i + 1, Len(s)), sep)

\* String.prototype.trim (the only whitespace of the alphabet is the space).
RECURSIVE trim(_)
trim(s) ==
  IF s = << >> THEN s
  ELSE IF Head(s) = " " THEN trim(Tail(s))
  ELSE IF s[Len(s)] = " " THEN trim(SubSeq(s, 1, Len(s) - 1))
  ELSE s

\* String.prototype.replace(/\s+/g, "-"): every run of whitespace becomes one hyphen.
RECURSIVE replaceWhitespaceRuns(_)
replaceWhitespaceRuns(s) ==
  IF s = << >> THEN s
  ELSE IF Head(s) = " "
       THEN IF Len(s) > 1 /\ s[2] = " "
            THEN replaceWhitespaceRuns(Tail(s))
            ELSE << "-" >> \o replaceWhitespaceRuns(Tail(s))
       ELSE << Head(s) >> \o replaceWhitespaceRuns(Tail(s))

\* Array.prototype.join on an array of strings.
RECURSIVE join(_, _)
join(parts, sep) ==
  IF parts = << >> THEN << >>
  ELSE IF Len(parts) = 1 THEN parts[1]
  ELSE parts[1] \o sep \o join(Tail(parts), sep)

\* Array.prototype.filter(Boolean) on an array of strings: drops "".
RECURSIVE filterNonEmpty(_)
filterNonEmpty(parts) ==
  IF parts = << >> THEN << >>
  ELSE IF Head(parts) = << >> THEN filterNonEmpty(Tail(parts))
  ELSE << Head(parts) >> \o filterNonEmpty(Tail(parts))

\* Array.prototype.sort() on an array of pairwise distinct strings.
RECURSIVE sortStrings(_)
sortStrings(keys) ==
  IF keys = << >> THEN << >>
  ELSE LET m == CHOOSE i \in 1..Len(keys) :
                  \A j \in 1..Len(keys) : j # i => ~StrLess(keys[j], keys[i])
       IN  << keys[m] >> \o
           sortStrings([ i \in 1..(Len(keys) - 1) |-> IF i < m THEN keys[i] ELSE keys[i + 1] ])

(***************************************************************************)
(* JavaScript values                                                       *)
(***************************************************************************)

JNull == [ t |-> "null" ]

JNum(n) == [ t |-> "num", n |-> n ]

JStr(s) == [ t |-> "str", s |-> s ]

JArr(a) == [ t |-> "arr", a |-> a ]

\* An object: its own properties as key/value entries in enumeration order.
JObj(e) == [ t |-> "obj", e |-> e ]

EmptyObj == JObj(<< >>)

\* A canonical array index ("0", "7", "10"): such keys enumerate first, in
\* ascending numeric order, whatever the insertion order.
IsIndexKey(k) ==
  /\ Len(k) >= 1
  /\ \A i \in 1..Len(k) : k[i] \in DigitChars
  /\ (Len(k) > 1 => k[1] # "0")

IndexLess(k1, k2) == Len(k1) < Len(k2) \/ (Len(k1) = Len(k2) /\ StrLess(k1, k2))

\* key in obj (own properties).
Has(o, k) == \E i \in 1..Len(o.e) : o.e[i].k = k

\* obj[key] for an own property.
Get(o, k) == o.e[CHOOSE i \in 1..Len(o.e) : o.e[i].k = k].v

\* Object.keys(obj).
Keys(o) == [ i \in 1..Len(o.e) |-> o.e[i].k ]

\* Where a new own property is placed in the enumeration order.
InsertPos(e, k) ==
  IF IsIndexKey(k)
  THEN Cardinality({ i \in 1..Len(e) : IsIndexKey(e[i].k) /\ IndexLess(e[i].k, k) }) + 1
  ELSE Len(e) + 1

\* obj[key] = value: a present key keeps its place, a new key is added.
Set(o, k, v) ==
  IF Has(o, k)
  THEN JObj([ i \in 1..Len(o.e) |-> IF o.e[i].k = k THEN [ k |-> k, v |-> v ] ELSE o.e[i] ])
  ELSE LET p == InsertPos(o.e, k)
       IN  JObj(SubSeq(o.e, 1, p - 1) \o << [ k |-> k, v |-> v ] >> \o SubSeq(o.e, p, Len(o.e)))

(***************************************************************************)
(* Property names and literals of the source                               *)
(***************************************************************************)

K_color == << "c", "o", "l", "o", "r" >>

K_spacing == << "s", "p", "a", "c", "i", "n", "g" >>

K_radius == << "r", "a", "d", "i", "u", "s" >>

K_rgba == << "r", "g", "b", "a" >>

K_hex == << "h", "e", "x" >>

K_value == << "v", "a", "l", "u", "e" >>

K_ref == << "$", "r", "e", "f" >>

S_Mode1 == << "M", "o", "d", "e", " ", "1" >>

S_default == << "d", "e", "f", "a", "u", "l", "t" >>

BucketOrder == << K_color, K_spacing, K_radius >>

PLUGIN_VERSION == << "0", ".", "1", ".", "0" >>

(***************************************************************************)
(* Pure functions of src/code.ts                                           *)
(***************************************************************************)

HexDigits ==
  << "0", "1", "2", "3", "4", "5", "6", "7", "8", "9", "a", "b", "c", "d", "e", "f" >>

\* Number.prototype.toString(16) for a non-negative integer.
RECURSIVE toString16(_)
toString16(n) ==
  IF n < 16 THEN << HexDigits[n + 1] >>
  ELSE toString16(n \div 16) \o << HexDigits[(n % 16) + 1] >>

\* pad of rgbaToHex: ("0" + n.toString(16)).slice(-2).
pad(n) ==
  LET s == << "0" >> \o toString16(n)
  IN  SubSeq(s, Len(s) - 1, Len(s))

\* Math.round(x * 255) for a channel x given in thousandths.
round255(x) == (x * 255 * 2 + 1000) \div 2000

\* rgbaToHex with the alpha channel appended whatever a is.
rgbaToHex_alphaAlways(r, g, b, a) ==
  << "#" >> \o pad(round255(r)) \o pad(round255(g)) \o pad(round255(b)) \o pad(round255(a))

\* Channels are numbers in [0, 1], held in thousandths (1000 is 1.0).
rgbaToHex(r, g, b, a) ==
  LET R == pad(round255(r))
      G == pad(round255(g))
      B == pad(round255(b))
  IN  IF a >= 1000 THEN << "#" >> \o R \o G \o B
      ELSE << "#" >> \o R \o G \o B \o pad(round255(a))

\* The normalisation without filter(Boolean): empty segments are joined too.
nameToTokenPath_keepsEmpty(name) ==
  LET parts == split(name, "/")
      segments == [ i \in 1..Len(parts) |->
                      replaceWhitespaceRuns(toLowerCase(trim(parts[i]))) ]
  IN  join(segments, << "." >>)

nameToTokenPath(name) ==
  LET parts == split(name, "/")
      segments == [ i \in 1..Len(parts) |->
                      replaceWhitespaceRuns(toLowerCase(trim(parts[i]))) ]
  IN  join(filterNonEmpty(segments), << "." >>)

\* A host value is a tagged record: a colour [r, g, b] with an optional a,
\* a number [n], an alias [type, id] or a string [s].
isVariableAlias(value) ==
  value.t = "alias" /\ value.type = "VARIABLE_ALIAS"

\* The alias target id, or "" for null.
getAliasVariableId(value) ==
  IF value.t = "alias" /\ value.type = "VARIABLE_ALIAS" /\ "id" \in DOMAIN value
  THEN value.id
  ELSE ""

buildTokenValueRaw(value, isAlias, varIdToTokenPath, resolvedType) ==
  IF isAlias
  THEN LET targetId == getAliasVariableId(value)
           known == targetId # "" /\ targetId \in DOMAIN varIdToTokenPath
       IN  IF known /\ varIdToTokenPath[targetId] # << >>
           THEN JObj(<< [ k |-> K_ref, v |-> JStr(varIdToTokenPath[targetId]) ] >>)
           ELSE JNull
  ELSE IF resolvedType = "COLOR" /\ value.t = "color"
  THEN LET a == IF "a" \in DOMAIN value THEN value.a ELSE 1000
       IN  JObj(<< [ k |-> K_rgba, v |-> JArr(<< value.r, value.g, value.b, a >>) ],
                   [ k |-> K_hex, v |-> JStr(rgbaToHex(value.r, value.g, value.b, a)) ] >>)
  ELSE IF resolvedType = "FLOAT" /\ value.t = "num"
  THEN JObj(<< [ k |-> K_value, v |-> JNum(value.n) ] >>)
  ELSE JNull

\* getValueForMode without the single-mode fallback.
getValueForMode_exactOnly(tokenEntry, requestedModeName) ==
  IF Has(tokenEntry, requestedModeName) THEN Get(tokenEntry, requestedModeName)
  ELSE JNull

getValueForMode(tokenEntry, requestedModeName) ==
  IF Has(tokenEntry, requestedModeName) THEN Get(tokenEntry, requestedModeName)
  ELSE IF Len(Keys(tokenEntry)) = 1 THEN Get(tokenEntry, Keys(tokenEntry)[1])
  ELSE JNull

\* sortObjectKeys without the recursion into nested objects.
sortObjectKeys_shallow(obj) ==
  LET ks == sortStrings(Keys(obj))
      RECURSIVE copy(_, _)
      copy(i, out) ==
        IF i > Len(ks) THEN out
        ELSE copy(i + 1, Set(out, ks[i], Get(obj, ks[i])))
  IN  copy(1, EmptyObj)

RECURSIVE sortObjectKeys(_)
sortObjectKeys(obj) ==
  LET ks == sortStrings(Keys(obj))
      RECURSIVE copy(_, _)
      copy(i, out) ==
        IF i > Len(ks) THEN out
        ELSE LET v == Get(obj, ks[i])
             IN  copy(i + 1, Set(out, ks[i], IF v.t = "obj" THEN sortObjectKeys(v) ELSE v))
  IN  copy(1, EmptyObj)

\* Object.keys(tokensRaw) order of the literal { color: {}, spacing: {}, radius: {} }.
EmptyTokens ==
  JObj(<< [ k |-> K_color, v |-> EmptyObj ],
          [ k |-> K_spacing, v |-> EmptyObj ],
          [ k |-> K_radius, v |-> EmptyObj ] >>)

\* String.prototype.localeCompare(...) < 0 in the root collation: punctuation
\* sorts before digits, digits before letters, and case only breaks ties.
CollationOrder ==
  << " ", "-", ":", ".", "/", "#", "$",
     "0", "1", "2", "3", "4", "5", "6", "7", "8", "9",
     "a", "b", "c", "d", "e", "f", "g", "h", "i", "j", "k", "l", "m",
     "n", "o", "p", "q", "r", "s", "t", "u", "v", "w", "x", "y", "z" >>

PrimaryRank ==
  [ c \in CharSet |->
      CHOOSE i \in 1..Len(CollationOrder) : CollationOrder[i] = LowerChar(c) ]

LocaleLess(s, t) ==
  LET primaryLess ==
        \E i \in 1..(Len(s) + 1) :
           /\ \A j \in 1..(i - 1) : j <= Len(t) /\ PrimaryRank[s[j]] = PrimaryRank[t[j]]
           /\ \/ i = Len(s) + 1 /\ Len(t) >= i
              \/ i <= Len(s) /\ i <= Len(t) /\ PrimaryRank[s[i]] < PrimaryRank[t[i]]
      primaryEqual ==
        Len(s) = Len(t) /\ \A j \in 1..Len(s) : PrimaryRank[s[j]] = PrimaryRank[t[j]]
      caseLess ==
        \E i \in 1..Len(s) :
           /\ \A j \in 1..(i - 1) : s[j] = t[j]
           /\ s[i] # t[i] /\ s[i] \notin UpperChars
  IN  primaryLess \/ (primaryEqual /\ caseLess)

\* [...c.modes].sort((a, b) => a.id.localeCompare(b.id)): a stable sort of a copy.
RECURSIVE sortModesById(_)
sortModesById(modes) ==
  IF modes = << >> THEN << >>
  ELSE LET m == CHOOSE i \in 1..Len(modes) :
                  /\ \A j \in 1..Len(modes) : ~LocaleLess(modes[j].id, modes[i].id)
                  /\ \A j \in 1..(i - 1) : LocaleLess(modes[i].id, modes[j].id)
       IN  << modes[m] >> \o
           sortModesById([ i \in 1..(Len(modes) - 1) |-> IF i < m THEN modes[i] ELSE modes[i + 1] ])

\* c.modes after a sort made in place, on the array of the input itself.
modesAfterSort_inPlace(modes) == sortModesById(modes)

\* c.modes of the input after [...c.modes].sort(...): the spread copies the
\* array, the sort works on the copy and the input keeps its order.
modesAfterSort(modes) == modes

(***************************************************************************)
(* buildExportModel: classification                                        *)
(***************************************************************************)

\* The variables of a snapshot in the order of the two nested for-loops.
VarList(cols) ==
  LET RECURSIVE flat(_)
      flat(ci) ==
        IF ci > Len(cols) THEN << >>
        ELSE [ vi \in 1..Len(cols[ci].variables) |-> [ c |-> ci, v |-> vi ] ] \o flat(ci + 1)
  IN  flat(1)

\* 1) varId -> tokenPath lookup: a later variable with the same id overwrites.
buildVarIdToTokenPath(cols) ==
  LET vl == VarList(cols)
      idOf(i) == cols[vl[i].c].variables[vl[i].v].id
      ids == { idOf(i) : i \in 1..Len(vl) }
      last(id) == CHOOSE i \in 1..Len(vl) :
                    idOf(i) = id /\ \A j \in (i + 1)..Len(vl) : idOf(j) # id
  IN  [ id \in ids |-> nameToTokenPath(cols[vl[last(id)].c].variables[vl[last(id)].v].name) ]

\* The mode name taken to be the mode id whether or not the collection knows it.
modeNameOf_idAlways(col, modeId) == modeId

\* modeIdToName[modeId] ?? modeId
modeNameOf(col, modeId) ==
  IF \E i \in 1..Len(col.modes) : col.modes[i].id = modeId
  THEN col.modes[CHOOSE i \in 1..Len(col.modes) :
                   col.modes[i].id = modeId
                   /\ \A j \in (i + 1)..Len(col.modes) : col.modes[j].id # modeId].name
  ELSE modeId

\* The output key with "default" for every mode named "Mode 1".
getOutputModeKey_anyModeOne(col, modeName) ==
  IF modeName = S_Mode1 THEN S_default ELSE modeName

getOutputModeKey(col, modeName) ==
  IF Len(col.modes) = 1 /\ col.modes[1].name = S_Mode1 /\ modeName = S_Mode1
  THEN S_default
  ELSE modeName

\* The bucket a variable is routed to, or << >> for none.
\* The routing with the variable's own name looked at before the collection name.
routeBucket_nameDecides(col, v) ==
  LET nameLower == toLowerCase(v.name)
      colNameLower == toLowerCase(col.name)
  IN  IF v.resolvedType = "COLOR" THEN K_color
      ELSE IF v.resolvedType = "FLOAT"
      THEN IF includes(nameLower, K_spacing) THEN K_spacing
           ELSE IF includes(nameLower, K_radius) THEN K_radius
           ELSE IF includes(colNameLower, K_spacing) THEN K_spacing
           ELSE IF includes(colNameLower, K_radius) THEN K_radius
           ELSE << >>
      ELSE << >>

routeBucket(col, v) ==
  LET nameLower == toLowerCase(v.name)
      colNameLower == toLowerCase(col.name)
  IN  IF v.resolvedType = "COLOR" THEN K_color
      ELSE IF v.resolvedType = "FLOAT"
      THEN IF includes(colNameLower, K_spacing) THEN K_spacing
           ELSE IF includes(colNameLower, K_radius) THEN K_radius
           ELSE IF includes(nameLower, K_spacing) THEN K_spacing
           ELSE IF includes(nameLower, K_radius) THEN K_radius
           ELSE << >>
      ELSE << >>

\* The collision detector with one table of first claimants for all buckets.
checkCollisionAndAdd_oneNamespace(first, dups, bucket, tokenPath, varId, originalName, collectionName) ==
  LET map == first[K_color]
      exists == tokenPath \in DOMAIN map
  IN  IF exists /\ map[tokenPath].varId # varId
      THEN [ ok |-> FALSE,
             first |-> first,
             dups |-> Append(dups,
                        [ type |-> "DuplicateTokenPath",
                          tokenPath |-> tokenPath,
                          bucket |-> bucket,
                          existingVarId |-> map[tokenPath].varId,
                          newVarId |-> varId,
                          existingOriginalName |-> map[tokenPath].originalName,
                          newOriginalName |-> originalName,
                          existingCollectionName |-> map[tokenPath].collectionName,
                          newCollectionName |-> collectionName,
                          suggestion |-> "Rename one of the variables or move them into the same collection." ]) ]
      ELSE [ ok |-> TRUE,
             first |-> IF exists THEN first
                       ELSE [ first EXCEPT ![K_color] =
                                [ p \in DOMAIN map \cup { tokenPath } |->
                                    IF p = tokenPath
                                    THEN [ varId |-> varId,
                                           originalName |-> originalName,
                                           collectionName |-> collectionName ]
                                    ELSE map[p] ] ],
             dups |-> dups ]

\* The collision detector recording the rejected variable as the holder of the path.
checkCollisionAndAdd_remembersLast(first, dups, bucket, tokenPath, varId, originalName, collectionName) ==
  LET map == first[bucket]
      exists == tokenPath \in DOMAIN map
      claim == [ first EXCEPT ![bucket] =
                   [ p \in DOMAIN map \cup { tokenPath } |->
                       IF p = tokenPath
                       THEN [ varId |-> varId,
                              originalName |-> originalName,
                              collectionName |-> collectionName ]
                       ELSE map[p] ] ]
  IN  IF exists /\ map[tokenPath].varId # varId
      THEN [ ok |-> FALSE,
             first |-> claim,
             dups |-> Append(dups,
                        [ type |-> "DuplicateTokenPath",
                          tokenPath |-> tokenPath,
                          bucket |-> bucket,
                          existingVarId |-> map[tokenPath].varId,
                          newVarId |-> varId,
                          existingOriginalName |-> map[tokenPath].originalName,
                          newOriginalName |-> originalName,
                          existingCollectionName |-> map[tokenPath].collectionName,
                          newCollectionName |-> collectionName,
                          suggestion |-> "Rename one of the variables or move them into the same collection." ]) ]
      ELSE [ ok |-> TRUE,
             first |-> IF exists THEN first ELSE claim,
             dups |-> dups ]

\* The state of the collision detector is passed in and returned.
checkCollisionAndAdd(first, dups, bucket, tokenPath, varId, originalName, collectionName) ==
  LET map == first[bucket]
      exists == tokenPath \in DOMAIN map
  IN  IF exists /\ map[tokenPath].varId # varId
      THEN [ ok |-> FALSE,
             first |-> first,
             dups |-> Append(dups,
                        [ type |-> "DuplicateTokenPath",
                          tokenPath |-> tokenPath,
                          bucket |-> bucket,
                          existingVarId |-> map[tokenPath].varId,
                          newVarId |-> varId,
                          existingOriginalName |-> map[tokenPath].originalName,
                          newOriginalName |-> originalName,
                          existingCollectionName |-> map[tokenPath].collectionName,
                          newCollectionName |-> collectionName,
                          suggestion |-> "Rename one of the variables or move them into the same collection." ]) ]
      ELSE [ ok |-> TRUE,
             first |-> IF exists THEN first
                       ELSE [ first EXCEPT ![bucket] =
                                [ p \in DOMAIN map \cup { tokenPath } |->
                                    IF p = tokenPath
                                    THEN [ varId |-> varId,
                                           originalName |-> originalName,
                                           collectionName |-> collectionName ]
                                    ELSE map[p] ] ],
             dups |-> dups ]

\* tokensRaw[bucket][tokenPath] = {} followed by the loop over Object.keys(v.valuesPerMode).
fillEntry(col, v, lookup) ==
  LET ids == Keys(v.valuesPerMode)
      RECURSIVE fill(_, _)
      fill(i, entry) ==
        IF i > Len(ids) THEN entry
        ELSE LET e == Get(v.valuesPerMode, ids[i])
                 outputKey == getOutputModeKey(col, modeNameOf(col, ids[i]))
                 tv == buildTokenValueRaw(e.value, e.isAlias, lookup, v.resolvedType)
             IN  fill(i + 1, IF tv # JNull THEN Set(entry, outputKey, tv) ELSE entry)
  IN  fill(1, EmptyObj)

\* One iteration of the inner loop "for (const v of col.variables)".
\* The classification of one variable, writing its entry even when the path is taken.
classifyVariable_lastWins(raw, first, dups, lookup, col, v) ==
  LET tokenPath == lookup[v.id]
      bucket == routeBucket(col, v)
      chk == checkCollisionAndAdd(first, dups, bucket, tokenPath, v.id, v.name, col.name)
  IN  IF bucket = << >>
      THEN [ raw |-> raw, first |-> first, dups |-> dups ]
      ELSE [ raw |-> Set(raw, bucket, Set(Get(raw, bucket), tokenPath, fillEntry(col, v, lookup))),
             first |-> chk.first,
             dups |-> chk.dups ]

classifyVariable(raw, first, dups, lookup, col, v) ==
  LET tokenPath == lookup[v.id]
      bucket == routeBucket(col, v)
      chk == checkCollisionAndAdd(first, dups, bucket, tokenPath, v.id, v.name, col.name)
  IN  IF bucket = << >>
      THEN [ raw |-> raw, first |-> first, dups |-> dups ]
      ELSE IF ~chk.ok
      THEN [ raw |-> raw, first |-> chk.first, dups |-> chk.dups ]
      ELSE [ raw |-> Set(raw, bucket, Set(Get(raw, bucket), tokenPath, fillEntry(col, v, lookup))),
             first |-> chk.first,
             dups |-> chk.dups ]

(***************************************************************************)
(* resolveRef                                                              *)
(***************************************************************************)

pathKeyOf(bucket, tokenPath, requestedModeName) ==
  bucket \o << ":" >> \o tokenPath \o << ":" >> \o requestedModeName

ResolutionError(tokenPath, requestedModeName, reason, errChain) ==
  [ tokenPath |-> tokenPath, requestedModeName |-> requestedModeName,
    reason |-> reason, chain |-> errChain ]

\* What one invocation of resolveRef does up to its return (act = "return",
\* value ret) or up to its recursive call (act = "call", callee refPath).
Outcome(act, value, vis, chn, refPath, errors) ==
  [ act |-> act, ret |-> value, visited |-> vis, chain |-> chn,
    refPath |-> refPath, errors |-> errors ]

\* The cycle exit without its errors.push.
cycleExit_silent(tokenPath, requestedModeName, vis, chn, errors) ==
  Outcome("return", JNull, vis, chn, << >>, errors)

\* The cycle exit reporting the chain so far, the revisited path left out.
cycleExit_chainOnly(tokenPath, requestedModeName, vis, chn, errors) ==
  Outcome("return", JNull, vis, chn, << >>,
          Append(errors, ResolutionError(tokenPath, requestedModeName, "cycle", chn)))

\* if (visited.has(pathKey)) { errors.push(cycle); return null; }
cycleExit(tokenPath, requestedModeName, vis, chn, errors) ==
  Outcome("return", JNull, vis, chn, << >>,
          Append(errors, ResolutionError(tokenPath, requestedModeName, "cycle",
                                         Append(chn, tokenPath))))

\* if (!tokenEntry) { errors.push(missing token); visited.delete; chain.pop; return null; }
missingExit(tokenPath, requestedModeName, pathKey, vis, chn, errors) ==
  Outcome("return", JNull, vis \ { pathKey }, SubSeq(chn, 1, Len(chn) - 1), << >>,
          Append(errors, ResolutionError(tokenPath, requestedModeName, "missing token", chn)))

\* The mode-mismatch exit without its errors.push.
mismatchExit_silent(tokenPath, requestedModeName, pathKey, vis, chn, errors) ==
  Outcome("return", JNull, vis \ { pathKey }, SubSeq(chn, 1, Len(chn) - 1), << >>, errors)

\* if (!modeValues) { errors.push(mode mismatch); visited.delete; chain.pop; return null; }
mismatchExit(tokenPath, requestedModeName, pathKey, vis, chn, errors) ==
  Outcome("return", JNull, vis \ { pathKey }, SubSeq(chn, 1, Len(chn) - 1), << >>,
          Append(errors, ResolutionError(tokenPath, requestedModeName, "mode mismatch", chn)))

\* The alias branch without its check of the target: it recurses into the
\* missing path.
danglingExit_recurses(tokenPath, requestedModeName, pathKey, refPath, vis, chn, errors) ==
  Outcome("call", JNull, vis, chn, refPath, errors)

\* The dangling-target exit without visited.delete and chain.pop.
danglingExit_noUnwind(tokenPath, requestedModeName, pathKey, refPath, vis, chn, errors) ==
  Outcome("return", JNull, vis, chn, << >>,
          Append(errors, ResolutionError(tokenPath, requestedModeName, "missing token",
                                         Append(chn, refPath))))

\* The dangling-target exit without its errors.push.
danglingExit_silent(tokenPath, requestedModeName, pathKey, refPath, vis, chn, errors) ==
  Outcome("return", JNull, vis \ { pathKey }, SubSeq(chn, 1, Len(chn) - 1), << >>, errors)

\* if (!bucketTokens[refPath]) { errors.push(missing token); visited.delete; chain.pop; return null; }
danglingExit(tokenPath, requestedModeName, pathKey, refPath, vis, chn, errors) ==
  Outcome("return", JNull, vis \ { pathKey }, SubSeq(chn, 1, Len(chn) - 1), << >>,
          Append(errors, ResolutionError(tokenPath, requestedModeName, "missing token",
                                         Append(chn, refPath))))

\* The literal exit giving up once the shared error list holds an error.
literalExit_nullAfterError(modeValues, pathKey, vis, chn, errors) ==
  Outcome("return",
          IF errors # << >> THEN JNull
          ELSE IF Has(modeValues, K_rgba)
          THEN JObj(<< [ k |-> K_rgba, v |-> Get(modeValues, K_rgba) ] >>)
          ELSE IF Has(modeValues, K_value)
          THEN JObj(<< [ k |-> K_value, v |-> Get(modeValues, K_value) ] >>)
          ELSE JNull,
          vis \ { pathKey }, SubSeq(chn, 1, Len(chn) - 1), << >>, errors)

\* visited.delete(pathKey); chain.pop(); return { rgba } | { value } | null;
literalExit(modeValues, pathKey, vis, chn, errors) ==
  Outcome("return",
          IF Has(modeValues, K_rgba)
          THEN JObj(<< [ k |-> K_rgba, v |-> Get(modeValues, K_rgba) ] >>)
          ELSE IF Has(modeValues, K_value)
          THEN JObj(<< [ k |-> K_value, v |-> Get(modeValues, K_value) ] >>)
          ELSE JNull,
          vis \ { pathKey }, SubSeq(chn, 1, Len(chn) - 1), << >>, errors)

\* One invocation of resolveRef, entered with the visited set vis and the chain chn.
resolveRef(tokenPath, requestedModeName, raw, bucket, vis, chn, errors) ==
  LET pathKey == pathKeyOf(bucket, tokenPath, requestedModeName)
      bucketTokens == Get(raw, bucket)
      vis1 == vis \cup { pathKey }
      chain1 == Append(chn, tokenPath)
  IN  IF pathKey \in vis
      THEN cycleExit(tokenPath, requestedModeName, vis, chn, errors)
      ELSE IF ~Has(bucketTokens, tokenPath)
      THEN missingExit(tokenPath, requestedModeName, pathKey, vis1, chain1, errors)
      ELSE LET modeValues == getValueForMode(Get(bucketTokens, tokenPath), requestedModeName)
           IN  IF modeValues = JNull
               THEN mismatchExit(tokenPath, requestedModeName, pathKey, vis1, chain1, errors)
               ELSE IF Has(modeValues, K_ref)
               THEN LET refPath == Get(modeValues, K_ref).s
                    IN  IF ~Has(bucketTokens, refPath)
                        THEN danglingExit(tokenPath, requestedModeName, pathKey, refPath,
                                          vis1, chain1, errors)
                        ELSE Outcome("call", JNull, vis1, chain1, refPath, errors)
               ELSE literalExit(modeValues, pathKey, vis1, chain1, errors)

\* The return after the recursive call, losing the callee's result.
resolveRefAfterCall_losesResult(pathKey, resolved, vis, chn) ==
  [ ret |-> JNull, visited |-> vis \ { pathKey }, chain |-> SubSeq(chn, 1, Len(chn) - 1) ]

\* The return after the recursive call without its visited.delete.
resolveRefAfterCall_keepsVisited(pathKey, resolved, vis, chn) ==
  [ ret |-> resolved, visited |-> vis, chain |-> SubSeq(chn, 1, Len(chn) - 1) ]

\* visited.delete(pathKey); chain.pop(); return resolved  -- after the recursive call.
resolveRefAfterCall(pathKey, resolved, vis, chn) ==
  [ ret |-> resolved, visited |-> vis \ { pathKey }, chain |-> SubSeq(chn, 1, Len(chn) - 1) ]

\* The stored value without the conversion of the color bucket.
resolvedCell_passThrough(bucket, resolved) == resolved

\* The value stored in tokensResolved[bucket][tokenPath][modeName].
resolvedCell(bucket, resolved) ==
  IF bucket = K_color
  THEN IF resolved # JNull /\ Has(resolved, K_rgba)
       THEN LET rgba == Get(resolved, K_rgba).a
            IN  JStr(rgbaToHex(rgba[1], rgba[2], rgba[3], IF Len(rgba) >= 4 THEN rgba[4] ELSE 1000))
       ELSE JNull
  ELSE resolved

\* The resolution pass taking the token paths as Object.keys gives them, unsorted.
PassItems_insertionOrder(raw) ==
  LET cells(b, p) ==
        LET ms == sortStrings(Keys(Get(Get(raw, b), p)))
        IN  [ i \in 1..Len(ms) |-> [ kind |-> "cell", bucket |-> b, tokenPath |-> p, modeName |-> ms[i] ] ]
      RECURSIVE paths(_, _, _)
      paths(b, ps, i) ==
        IF i > Len(ps) THEN << >>
        ELSE << [ kind |-> "path", bucket |-> b, tokenPath |-> ps[i], modeName |-> << >> ] >>
             \o cells(b, ps[i]) \o paths(b, ps, i + 1)
      RECURSIVE buckets(_)
      buckets(bi) ==
        IF bi > Len(BucketOrder) THEN << >>
        ELSE paths(BucketOrder[bi], Keys(Get(raw, BucketOrder[bi])), 1)
             \o buckets(bi + 1)
  IN  buckets(1)

\* The iterations of the three nested loops of the resolution pass, in order:
\* a "path" item for res[tokenPath] = {} and a "cell" item for each mode name.
PassItems(raw) ==
  LET cells(b, p) ==
        LET ms == sortStrings(Keys(Get(Get(raw, b), p)))
        IN  [ i \in 1..Len(ms) |-> [ kind |-> "cell", bucket |-> b, tokenPath |-> p, modeName |-> ms[i] ] ]
      RECURSIVE paths(_, _, _)
      paths(b, ps, i) ==
        IF i > Len(ps) THEN << >>
        ELSE << [ kind |-> "path", bucket |-> b, tokenPath |-> ps[i], modeName |-> << >> ] >>
             \o cells(b, ps[i]) \o paths(b, ps, i + 1)
      RECURSIVE buckets(_)
      buckets(bi) ==
        IF bi > Len(BucketOrder) THEN << >>
        ELSE paths(BucketOrder[bi], sortStrings(Keys(Get(raw, BucketOrder[bi]))), 1)
             \o buckets(bi + 1)
  IN  buckets(1)

\* new Date().toISOString() for a clock of t milliseconds (t < 10).
toISOString(t) ==
  << "1", "9", "7", "0", "-", "0", "1", "-", "0", "1", "T",
     "0", "0", ":", "0", "0", ":", "0", "0", ".", "0", "0", HexDigits[t + 1], "Z" >>

\* The final output with the tables as built, their keys not sorted.
exportModel_unsorted(cols, raw, resolved, dups, resErrors, clock) ==
  [ meta |-> [ exportedAt |-> toISOString(clock), pluginVersion |-> PLUGIN_VERSION ],
    collections |-> [ i \in 1..Len(cols) |->
                        [ id |-> cols[i].id, name |-> cols[i].name,
                          modes |-> sortModesById(cols[i].modes) ] ],
    tokensRaw |-> raw,
    tokensResolved |-> resolved,
    errors |-> dups \o resErrors ]

\* 5) Final output.
exportModel(cols, raw, resolved, dups, resErrors, clock) ==
  [ meta |-> [ exportedAt |-> toISOString(clock), pluginVersion |-> PLUGIN_VERSION ],
    collections |-> [ i \in 1..Len(cols) |->
                        [ id |-> cols[i].id, name |-> cols[i].name,
                          modes |-> sortModesById(cols[i].modes) ] ],
    tokensRaw |-> sortObjectKeys(raw),
    tokensResolved |-> sortObjectKeys(resolved),
    errors |-> dups \o resErrors ]

(***************************************************************************)
(* Input snapshots                                                         *)
(***************************************************************************)

\* Number of variables of a snapshot.
MaxVars == 3

\* Largest reading of the host clock (new Date()).
MaxClock == 1

\* Number of export runs on one document.
MaxRuns == 2

\* Number of variables of a snapshot that is exported more than once or
\* resolved in any order.
FewVars == 2

VarIdSeq == << "v1", "v2", "v3", "v4", "v5" >>

UnknownVarId == "remote"

\* valuesPerMode as logLocalVariableCollections builds it from valuesByMode.
collectValuesPerMode(valuesByMode) ==
  JObj([ i \in 1..Len(valuesByMode.e) |->
           [ k |-> valuesByMode.e[i].k,
             v |-> [ value |-> valuesByMode.e[i].v,
                     isAlias |-> isVariableAlias(valuesByMode.e[i].v) ] ] ])

Alias(id) == [ t |-> "alias", type |-> "VARIABLE_ALIAS", id |-> id ]

\* Literal of variable i under its m-th mode: distinct variables hold distinct
\* literals; the first mode's colour has no alpha component, the second is
\* translucent.
ColorLit(i, m) ==
  IF m = 1 THEN [ t |-> "color", r |-> 880, g |-> 950, b |-> (i * 250) % 1001 ]
  ELSE [ t |-> "color", r |-> (i * 250) % 1001, g |-> 0, b |-> 1000, a |-> 500 ]

NumLit(i, m) == [ t |-> "num", n |-> 4 * (i - 1) + (m - 1) ]

ThemeModes ==
  << [ id |-> << "1", ":", "0" >>, name |-> << "L", "i", "g", "h", "t" >> ],
     [ id |-> << "1", ":", "1" >>, name |-> << "D", "a", "r", "k" >> ] >>

BaseModes == << [ id |-> << "2", ":", "0" >>, name |-> S_Mode1 ] >>

N_Theme == << "T", "h", "e", "m", "e" >>

N_Base == << "B", "a", "s", "e" >>

N_Spacing == << "S", "p", "a", "c", "i", "n", "g" >>

\* Variable names: DistinctNames[i] normalise to pairwise distinct paths;
\* the names of ClashNames normalise to "surface.1", "surface.1" and "".
DistinctNames ==
  << << "A", "c", "c", "e", "n", "t", "/", "1", "0", "0" >>,
     << "B", "u", "t", "t", "o", "n", "/", "M", "a", "i", "n" >>,
     << "C", "a", "r", "d" >>,
     << "D", "i", "v", "i", "d", "e", "r" >>,
     << "E", "d", "g", "e" >> >>

ClashNames ==
  << << "S", "u", "r", "f", "a", "c", "e", "/", "1" >>,
     << " ", "s", "u", "r", "f", "a", "c", "e", " ", "/", "/", "1", " " >>,
     << " ", "/" >> >>

\* Names whose token paths are the array indices "2" and "10", and one that
\* is no index: names 7..9 of a profile.
IndexNames == << << "2" >>, << "1", "0" >>, << "b" >> >>

\* Names that say "radius" or "spacing", in either case, or both.
RoutingNames ==
  << << "R", "a", "d", "i", "u", "s", "/", "S", "m", "a", "l", "l" >>,
     << "S", "P", "A", "C", "I", "N", "G", "/", "l", "g" >>,
     << "R", "a", "d", "i", "u", "s", " ", "S", "p", "a", "c", "i", "n", "g" >> >>

\* A collection of two modes, one of them named "Mode 1" and the two not
\* listed in the order of their ids, and a collection whose single mode has
\* another name.
BrandModes ==
  << [ id |-> << "3", ":", "1" >>, name |-> S_Mode1 ],
     [ id |-> << "3", ":", "0" >>, name |-> << "M", "o", "d", "e", " ", "2" >> ] >>

MiscModes == << [ id |-> << "4", ":", "0" >>, name |-> << "V", "a", "l", "u", "e" >> ] >>

N_Radius == << "C", "o", "r", "n", "e", "r", " ", "R", "a", "d", "i", "u", "s" >>

N_Brand == << "B", "r", "a", "n", "d" >>

N_Misc == << "M", "i", "s", "c" >>

\* A profile fixes one variable: its collection ("theme": modes Light and
\* Dark; "base" and "spacing": the single mode "Mode 1"), its name, its type
\* and, per mode of the collection, what it holds: "lit" a literal of its
\* type, "next" an alias to the following variable (cyclically), "first" an
\* alias to the first variable, "remote" an alias to a variable that is not
\* part of the local collections.
Profile(col, name, type, vals) ==
  [ col |-> col, name |-> name, type |-> type, vals |-> vals ]

GraphProfiles ==
  { Profile("theme", 0, "COLOR", vals) :
      vals \in { << "lit", "lit" >>, << "next", "next" >>, << "first", "first" >>,
                 << "next", "lit" >>, << "next", "remote" >>, << "remote", "remote" >> } }
  \cup
  { Profile("base", 0, "COLOR", << val >>) : val \in { "lit", "next" } }

ClashProfiles ==
  { Profile("theme", 1, "COLOR", << "lit", "lit" >>),
    Profile("theme", 2, "COLOR", << "first", "first" >>),
    Profile("theme", 3, "COLOR", << "lit", "next" >>),
    Profile("theme", 2, "FLOAT", << "lit", "lit" >>),
    Profile("spacing", 1, "FLOAT", << "lit" >>),
    Profile("spacing", 2, "FLOAT", << "first" >>),
    Profile("spacing", 3, "FLOAT", << "next" >>),
    Profile("spacing", 1, "COLOR", << "lit" >>) }

RerunProfiles ==
  { Profile("theme", 1, "COLOR", << "lit", "next" >>),
    Profile("theme", 0, "COLOR", << "next", "first" >>),
    Profile("base", 2, "COLOR", << "lit" >>),
    Profile("base", 0, "COLOR", << "next" >>) }

AnyOrderProfiles ==
  { Profile("base", 0, "COLOR", << "lit" >>),
    Profile("base", 0, "COLOR", << "next" >>),
    Profile("base", 0, "COLOR", << "first" >>),
    Profile("theme", 0, "COLOR", << "lit", "first" >>) }

\* Profiles over the collections "radius" (Corner Radius, single mode
\* "Mode 1"), "brand" and "misc" as well, with names 4..6 of RoutingNames
\* and a type that is neither COLOR nor FLOAT.
ShapeProfiles ==
  { Profile("theme", 4, "COLOR", << "lit", "lit" >>),
    Profile("theme", 4, "FLOAT", << "lit", "lit" >>),
    Profile("base", 5, "FLOAT", << "lit" >>),
    Profile("base", 0, "FLOAT", << "lit" >>),
    Profile("spacing", 4, "FLOAT", << "lit" >>),
    Profile("radius", 5, "FLOAT", << "next" >>),
    Profile("radius", 0, "STRING", << "lit" >>),
    Profile("brand", 0, "COLOR", << "lit", "next" >>),
    Profile("misc", 0, "COLOR", << "first" >>),
    Profile("brand", 6, "FLOAT", << "lit", "lit" >>),
    Profile("radius", 0, "FLOAT", << "lit" >>),
    Profile("base", 0, "COLOR", << "lit" >>) }

\* Colours of two modes and aliases of one mode under the names of IndexNames.
SortProfiles ==
  { Profile("theme", n, "COLOR", << "lit", "lit" >>) : n \in 7..9 }
  \cup { Profile("base", n, "COLOR", << "next" >>) : n \in 7..9 }

FairProfiles ==
  { Profile("base", 0, "COLOR", << "next" >>),
    Profile("base", 0, "COLOR", << "lit" >>),
    Profile("spacing", 0, "FLOAT", << "lit" >>),
    Profile("theme", 0, "COLOR", << "next", "first" >>) }

\* The host value of variable i (of n) under its m-th mode.
HostValue(p, i, n, m) ==
  IF p.vals[m] = "lit" THEN (IF p.type = "COLOR" THEN ColorLit(i, m) ELSE NumLit(i, m))
  ELSE IF p.vals[m] = "next" THEN Alias(VarIdSeq[(i % n) + 1])
  ELSE IF p.vals[m] = "first" THEN Alias(VarIdSeq[1])
  ELSE Alias(UnknownVarId)

ModesOf(colKind) ==
  IF colKind = "theme" THEN ThemeModes
  ELSE IF colKind = "brand" THEN BrandModes
  ELSE IF colKind = "misc" THEN MiscModes
  ELSE BaseModes

MakeVariable(p, i, n) ==
  LET modes == ModesOf(p.col)
  IN  [ id |-> VarIdSeq[i],
        name |-> IF p.name = 0 THEN DistinctNames[i]
                 ELSE IF p.name <= Len(ClashNames) THEN ClashNames[p.name]
                 ELSE IF p.name <= Len(ClashNames) + Len(RoutingNames)
                 THEN RoutingNames[p.name - Len(ClashNames)]
                 ELSE IndexNames[p.name - Len(ClashNames) - Len(RoutingNames)],
        resolvedType |-> p.type,
        valuesPerMode |->
          collectValuesPerMode(
            JObj([ m \in 1..Len(modes) |-> [ k |-> modes[m].id, v |-> HostValue(p, i, n, m) ] ])) ]

\* The variables of the profiles ps that live in the collection colKind, in id order.
VariablesIn(ps, colKind) ==
  LET RECURSIVE pick(_)
      pick(i) ==
        IF i > Len(ps) THEN << >>
        ELSE (IF ps[i].col = colKind THEN << MakeVariable(ps[i], i, Len(ps)) >> ELSE << >>)
             \o pick(i + 1)
  IN  pick(1)

\* The snapshot of a sequence of profiles: the collections Theme, Base and
\* Spacing; a collection without variables is still listed.
MakeSnapshot(ps) ==
  << [ id |-> << "c", "1" >>, name |-> N_Theme, modes |-> ThemeModes,
       variables |-> VariablesIn(ps, "theme") ],
     [ id |-> << "c", "2" >>, name |-> N_Base, modes |-> BaseModes,
       variables |-> VariablesIn(ps, "base") ],
     [ id |-> << "c", "3" >>, name |-> N_Spacing, modes |-> BaseModes,
       variables |-> VariablesIn(ps, "spacing") ] >>

Snapshots ==
  { MakeSnapshot(ps) : ps \in [ 1..MaxVars -> GraphProfiles ] }
  \cup { MakeSnapshot(ps) : ps \in [ 1..MaxVars -> ClashProfiles ] }

RerunSnapshots == { MakeSnapshot(ps) : ps \in [ 1..FewVars -> RerunProfiles ] }

AnyOrderSnapshots == { MakeSnapshot(ps) : ps \in [ 1..FewVars -> AnyOrderProfiles ] }

MakeShapeSnapshot(ps) ==
  MakeSnapshot(ps) \o
  << [ id |-> << "c", "4" >>, name |-> N_Radius, modes |-> BaseModes,
       variables |-> VariablesIn(ps, "radius") ],
     [ id |-> << "c", "5" >>, name |-> N_Brand, modes |-> BrandModes,
       variables |-> VariablesIn(ps, "brand") ],
     [ id |-> << "c", "6" >>, name |-> N_Misc, modes |-> MiscModes,
       variables |-> VariablesIn(ps, "misc") ] >>

ShapeSnapshots == { MakeShapeSnapshot(ps) : ps \in [ 1..FewVars -> ShapeProfiles ] }

\* A snapshot in which collection d lists the first variable of the
\* document once more: collection.variableIds names it, and
\* getVariableByIdAsync returns the same variable for the same id.
ListAgain(snap, d) ==
  LET at == VarList(snap)[1]
  IN  [ snap EXCEPT ![d].variables = Append(@, snap[at.c].variables[at.v]) ]

RelistedSnapshots ==
  { ListAgain(MakeSnapshot(ps), d) : ps \in [ 1..FewVars -> RerunProfiles ], d \in 1..3 }

\* Longest variable name of the documents that vary one name.
MaxNameLen == 4

\* The characters of those names: a capital, a small letter, whitespace, the
\* separator of groups and the separator of token paths.
NameChars == { "A", "b", " ", "/", "." }

Names == UNION { [ 1..n -> NameChars ] : n \in 0..MaxNameLen }

\* A document of one collection: the colour v1 under the name n, and the
\* colour v2 "Button/Main" that is an alias to v1.
NameSnapshot(n) ==
  << [ id |-> << "c", "2" >>, name |-> N_Base, modes |-> BaseModes,
       variables |->
         << [ id |-> VarIdSeq[1], name |-> n, resolvedType |-> "COLOR",
              valuesPerMode |->
                collectValuesPerMode(
                  JObj(<< [ k |-> BaseModes[1].id, v |-> ColorLit(1, 2) ] >>)) ],
            [ id |-> VarIdSeq[2], name |-> DistinctNames[2], resolvedType |-> "COLOR",
              valuesPerMode |->
                collectValuesPerMode(
                  JObj(<< [ k |-> BaseModes[1].id, v |-> Alias(VarIdSeq[1]) ] >>)) ] >> ] >>

NameSnapshots == { NameSnapshot(n) : n \in Names }

\* Number of equal steps into which the range [0, 1] of a channel is cut.
ChannelSteps == 3

\* The channel values of the documents that vary one colour, in thousandths.
Channels == { (k * 1000) \div ChannelSteps : k \in 0..ChannelSteps }

\* The colours of the host: r, g, b and an alpha component that may be missing.
Colors ==
  { [ t |-> "color", r |-> r, g |-> g, b |-> b ] : r \in Channels, g \in Channels, b \in Channels }
  \cup
  { [ t |-> "color", r |-> r, g |-> g, b |-> b, a |-> a ] :
      r \in Channels, g \in Channels, b \in Channels, a \in Channels \cup { 999 } }

\* A document of one collection: the colour v1 "Accent/100" of value c, and
\* the colour v2 "Button/Main" that is an alias to v1.
ColorSnapshot(c) ==
  << [ id |-> << "c", "2" >>, name |-> N_Base, modes |-> BaseModes,
       variables |->
         << [ id |-> VarIdSeq[1], name |-> DistinctNames[1], resolvedType |-> "COLOR",
              valuesPerMode |->
                collectValuesPerMode(JObj(<< [ k |-> BaseModes[1].id, v |-> c ] >>)) ],
            [ id |-> VarIdSeq[2], name |-> DistinctNames[2], resolvedType |-> "COLOR",
              valuesPerMode |->
                collectValuesPerMode(
                  JObj(<< [ k |-> BaseModes[1].id, v |-> Alias(VarIdSeq[1]) ] >>)) ] >> ] >>

ColorSnapshots == { ColorSnapshot(c) : c \in Colors }

SortSnapshots == { MakeSnapshot(ps) : ps \in [ 1..FewVars -> SortProfiles ] }

FairSnapshots == { MakeSnapshot(ps) : ps \in [ 1..MaxVars -> FairProfiles ] }

(***************************************************************************)
(* State                                                                   *)
(***************************************************************************)

VARIABLES
  collections,       \* the snapshot handed to buildExportModel
  now,               \* the host clock
  pc,                \* "start", "classify", "resolve", "done"
  varIdToTokenPath,
  tokensRaw,
  tokenPathToFirst,
  duplicateErrors,
  varIdx,            \* position of the classification loops in VarList
  tokensResolved,
  resolutionErrors,
  todo,              \* remaining iterations of the resolution pass
  cur,               \* the (bucket, tokenPath, modeName) being resolved
  stack,             \* the active resolveRef invocations, innermost last
  visited,
  chain,
  ret,               \* the value returned by the invocation that ended last
  invocations,       \* resolveRef invocations made for cur
  output,            \* the value returned by buildExportModel
  prev,              \* the earlier runs: their snapshots and outputs
  par,               \* a pass over the same raw tables taken in any order
  lastSettings,      \* the module variable lastSettings
  requests,          \* the export runs and messages of the plugin, oldest first
  posted,            \* the messages handed to figma.ui.postMessage, in order
  notified           \* the calls of figma.notify, in order

vars ==
  << collections, now, pc, varIdToTokenPath, tokensRaw, tokenPathToFirst,
     duplicateErrors, varIdx, tokensResolved, resolutionErrors, todo, cur,
     stack, visited, chain, ret, invocations, output, prev, par,
     lastSettings, requests, posted, notified >>

hostVars == << lastSettings, requests, posted, notified >>

Settings(web, ios, android, framework) ==
  [ t |-> "settings",
    targets |-> [ web |-> web, ios |-> ios, android |-> android ],
    mobileFramework |-> framework ]

DEFAULT_SETTINGS == Settings(TRUE, FALSE, FALSE, "react-native")

NoCell == [ kind |-> "none" ]

NoOutput == [ t |-> "none" ]

EmptyFirst == [ b \in { K_color, K_spacing, K_radius } |-> << >> ]

NoPar == [ pending |-> { }, tasks |-> { }, resolved |-> EmptyTokens, errors |-> << >> ]

InitEngine ==
  /\ pc = "start"
  /\ varIdToTokenPath = << >>
  /\ tokensRaw = EmptyTokens
  /\ tokenPathToFirst = EmptyFirst
  /\ duplicateErrors = << >>
  /\ varIdx = 1
  /\ tokensResolved = EmptyTokens
  /\ resolutionErrors = << >>
  /\ todo = << >>
  /\ cur = NoCell
  /\ stack = << >>
  /\ visited = { }
  /\ chain = << >>
  /\ ret = JNull
  /\ invocations = 0
  /\ output = NoOutput
  /\ prev = << >>
  /\ par = NoPar
  /\ lastSettings = DEFAULT_SETTINGS
  /\ requests = << >>
  /\ posted = << >>
  /\ notified = << >>

Init == collections \in Snapshots /\ now = 0 /\ InitEngine

InitRerun == collections \in RerunSnapshots /\ now = 0 /\ InitEngine

InitFair == collections \in FairSnapshots /\ now = 0 /\ InitEngine

InitShapes == collections \in ShapeSnapshots /\ now = MaxClock /\ InitEngine

InitRelisted == collections \in RelistedSnapshots /\ now = MaxClock /\ InitEngine

InitNames == collections \in NameSnapshots /\ now = MaxClock /\ InitEngine

InitColors == collections \in ColorSnapshots /\ now = MaxClock /\ InitEngine

InitSort == collections \in SortSnapshots /\ now = MaxClock /\ InitEngine

(***************************************************************************)
(* buildExportModel, step by step                                          *)
(***************************************************************************)

resolverVars == << cur, stack, visited, chain, ret, invocations >>

classifyVars == << varIdToTokenPath, tokensRaw, tokenPathToFirst, duplicateErrors, varIdx >>

\* The entry of buildExportModel with a duplicateErrors list that outlives the run.
BuildLookup_keepsErrors ==
  /\ pc = "start"
  /\ pc' = "classify"
  /\ varIdToTokenPath' = buildVarIdToTokenPath(collections)
  /\ tokensRaw' = EmptyTokens
  /\ tokenPathToFirst' = EmptyFirst
  /\ varIdx' = 1
  /\ UNCHANGED << collections, now, duplicateErrors, tokensResolved, resolutionErrors,
                  todo, resolverVars, output, prev, par, hostVars >>

\* Entry of buildExportModel: the lookup and the empty tables of steps 1 and 2.
BuildLookup ==
  /\ pc = "start"
  /\ pc' = "classify"
  /\ varIdToTokenPath' = buildVarIdToTokenPath(collections)
  /\ tokensRaw' = EmptyTokens
  /\ tokenPathToFirst' = EmptyFirst
  /\ duplicateErrors' = << >>
  /\ varIdx' = 1
  /\ UNCHANGED << collections, now, tokensResolved, resolutionErrors, todo,
                  resolverVars, output, prev, par, hostVars >>

\* One variable of the classification loops.
ClassifyVariable ==
  /\ pc = "classify"
  /\ varIdx <= Len(VarList(collections))
  /\ LET at == VarList(collections)[varIdx]
         col == collections[at.c]
         r == classifyVariable(tokensRaw, tokenPathToFirst, duplicateErrors,
                               varIdToTokenPath, col, col.variables[at.v])
     IN  /\ tokensRaw' = r.raw
         /\ tokenPathToFirst' = r.first
         /\ duplicateErrors' = r.dups
  /\ varIdx' = varIdx + 1
  /\ UNCHANGED << collections, now, pc, varIdToTokenPath, tokensResolved,
                  resolutionErrors, todo, resolverVars, output, prev, par, hostVars >>

\* 4) the empty resolved tables and error list; the pass starts.
BeginResolve ==
  /\ pc = "classify"
  /\ varIdx > Len(VarList(collections))
  /\ pc' = "resolve"
  /\ tokensResolved' = EmptyTokens
  /\ resolutionErrors' = << >>
  /\ todo' = PassItems(tokensRaw)
  /\ UNCHANGED << collections, now, classifyVars, resolverVars, output, prev, par, hostVars >>

\* res[tokenPath] = {}
BeginTokenPath ==
  /\ pc = "resolve"
  /\ cur = NoCell
  /\ todo # << >>
  /\ Head(todo).kind = "path"
  /\ LET it == Head(todo)
     IN  tokensResolved' =
           Set(tokensResolved, it.bucket,
               Set(Get(tokensResolved, it.bucket), it.tokenPath, EmptyObj))
  /\ todo' = Tail(todo)
  /\ UNCHANGED << collections, now, pc, classifyVars, resolutionErrors,
                  resolverVars, output, prev, par, hostVars >>

NewFrame(bucket, tokenPath, modeName, vis, chn) ==
  [ tokenPath |-> tokenPath,
    pathKey |-> pathKeyOf(bucket, tokenPath, modeName),
    at |-> "entry",
    enteredVisited |-> vis,
    enteredChain |-> chn ]

\* The top-level call resolveRef(tokenPath, modeName, tokensRaw, bucket, new Set(), [], errors).
CallResolveRef ==
  /\ pc = "resolve"
  /\ cur = NoCell
  /\ todo # << >>
  /\ Head(todo).kind = "cell"
  /\ cur' = Head(todo)
  /\ todo' = Tail(todo)
  /\ visited' = { }
  /\ chain' = << >>
  /\ stack' = << NewFrame(Head(todo).bucket, Head(todo).tokenPath, Head(todo).modeName, { }, << >>) >>
  /\ invocations' = 0
  /\ UNCHANGED << collections, now, pc, classifyVars, tokensResolved,
                  resolutionErrors, ret, output, prev, par, hostVars >>

\* The innermost invocation runs from its entry to its return or to its recursive call.
ResolveRefBody ==
  /\ stack # << >>
  /\ stack[Len(stack)].at = "entry"
  /\ LET top == stack[Len(stack)]
         r == resolveRef(top.tokenPath, cur.modeName, tokensRaw, cur.bucket,
                         visited, chain, resolutionErrors)
     IN  /\ visited' = r.visited
         /\ chain' = r.chain
         /\ resolutionErrors' = r.errors
         /\ IF r.act = "return"
            THEN /\ ret' = r.ret
                 /\ stack' = SubSeq(stack, 1, Len(stack) - 1)
            ELSE /\ ret' = ret
                 /\ stack' = [ stack EXCEPT ![Len(stack)].at = "called" ]
                             \o << NewFrame(cur.bucket, r.refPath, cur.modeName,
                                            r.visited, r.chain) >>
  /\ invocations' = invocations + 1
  /\ UNCHANGED << collections, now, pc, classifyVars, tokensResolved, todo, cur,
                  output, prev, par, hostVars >>

\* The recursive call has returned: unwind and return its result.
ResolveRefUnwind ==
  /\ stack # << >>
  /\ stack[Len(stack)].at = "called"
  /\ LET r == resolveRefAfterCall(stack[Len(stack)].pathKey, ret, visited, chain)
     IN  /\ visited' = r.visited
         /\ chain' = r.chain
         /\ ret' = r.ret
  /\ stack' = SubSeq(stack, 1, Len(stack) - 1)
  /\ UNCHANGED << collections, now, pc, classifyVars, tokensResolved,
                  resolutionErrors, todo, cur, invocations, output, prev, par, hostVars >>

\* res[tokenPath][modeName] = the cell of the value the top-level call returned.
StoreResolved ==
  /\ pc = "resolve"
  /\ cur # NoCell
  /\ stack = << >>
  /\ tokensResolved' =
       Set(tokensResolved, cur.bucket,
           Set(Get(tokensResolved, cur.bucket), cur.tokenPath,
               Set(Get(Get(tokensResolved, cur.bucket), cur.tokenPath), cur.modeName,
                   resolvedCell(cur.bucket, ret))))
  /\ cur' = NoCell
  /\ UNCHANGED << collections, now, pc, classifyVars, resolutionErrors, todo,
                  stack, visited, chain, ret, invocations, output, prev, par, hostVars >>

\* 5) the export model is returned; the clock is read for meta.exportedAt.
Finish ==
  /\ pc = "resolve"
  /\ cur = NoCell
  /\ todo = << >>
  /\ \E t \in now..MaxClock :
       /\ now' = t
       /\ output' = exportModel(collections, tokensRaw, tokensResolved,
                                duplicateErrors, resolutionErrors, t)
  /\ collections' = [ i \in 1..Len(collections) |->
                        [ collections[i] EXCEPT !.modes = modesAfterSort(@) ] ]
  /\ pc' = "done"
  /\ UNCHANGED << classifyVars, tokensResolved, resolutionErrors,
                  todo, resolverVars, prev, par, hostVars >>

Next ==
  \/ BuildLookup
  \/ ClassifyVariable
  \/ BeginResolve
  \/ BeginTokenPath
  \/ CallResolveRef
  \/ ResolveRefBody
  \/ ResolveRefUnwind
  \/ StoreResolved
  \/ Finish

Spec == Init /\ [][Next]_vars

\* resolveRef is synchronous code: an invocation that can run or unwind does.
SpecFair == InitFair /\ [][Next]_vars /\ WF_vars(ResolveRefBody) /\ WF_vars(ResolveRefUnwind)

\* One export of a document whose collections differ in name and modes.
SpecShapes == InitShapes /\ [][Next]_vars

\* One export of a document in which a variable is listed twice.
SpecRelisted == InitRelisted /\ [][Next]_vars

\* One export of a document for every name of a variable.
SpecNames == InitNames /\ [][Next]_vars

\* One export of a document for every colour of a variable.
SpecColors == InitColors /\ [][Next]_vars

\* One export of a document whose token paths are array indices.
SpecSort == InitSort /\ [][Next]_vars

(***************************************************************************)
(* A further export run on the same document (REFRESH)                     *)
(***************************************************************************)

reverse(s) == [ i \in 1..Len(s) |-> s[Len(s) + 1 - i] ]

\* The host may enumerate the same collections, variables and valuesByMode
\* entries in another order.
ReverseCollections(cols) == reverse(cols)

ReverseVariables(cols) ==
  [ i \in 1..Len(cols) |-> [ cols[i] EXCEPT !.variables = reverse(@) ] ]

ReverseEntries(cols) ==
  [ i \in 1..Len(cols) |->
      [ cols[i] EXCEPT !.variables =
          [ j \in 1..Len(@) |-> [ @[j] EXCEPT !.valuesPerMode = JObj(reverse(@.e)) ] ] ] ]

Enumerations(cols) ==
  { cols, ReverseCollections(cols), ReverseVariables(cols), ReverseEntries(cols) }

\* The next run starts: the plugin keeps nothing of the finished one; its
\* snapshot and output are remembered here to compare the runs.
Rerun ==
  /\ pc = "done"
  /\ Len(prev) + 1 < MaxRuns
  /\ prev' = Append(prev, [ collections |-> collections, output |-> output ])
  /\ collections' \in Enumerations(collections)
  /\ pc' = "start"
  /\ output' = NoOutput
  /\ UNCHANGED << now, classifyVars, tokensResolved, resolutionErrors, todo,
                  resolverVars, par, hostVars >>

NextRerun == Next \/ Rerun

SpecRerun == InitRerun /\ [][NextRerun]_vars

(***************************************************************************)
(* The resolution pass taken in any order                                  *)
(*                                                                         *)
(* After the sorted pass the same (bucket, path, mode) pairs are resolved  *)
(* again over the same tokensRaw, picked in any order and with up to       *)
(* MaxInFlight top-level calls interleaved invocation by invocation; each  *)
(* call has its own visited set and chain, all append to one error list.   *)
(***************************************************************************)

\* Number of top-level calls in flight at once.
MaxInFlight == 2

InitAnyOrder == collections \in AnyOrderSnapshots /\ now = MaxClock /\ InitEngine

PairsOf(raw) ==
  UNION { UNION { { [ bucket |-> b, tokenPath |-> p, modeName |-> m ] :
                      m \in { Keys(Get(Get(raw, b), p))[i] : i \in 1..Len(Keys(Get(Get(raw, b), p))) } } :
                    p \in { Keys(Get(raw, b))[i] : i \in 1..Len(Keys(Get(raw, b))) } } :
          b \in { BucketOrder[i] : i \in 1..Len(BucketOrder) } }

\* const tokensResolved = { color: {}, spacing: {}, radius: {} }; const resolutionErrors = [];
BeginAnyOrder ==
  /\ pc = "done"
  /\ pc' = "anyorder"
  /\ par' = [ pending |-> PairsOf(tokensRaw), tasks |-> { },
              resolved |-> EmptyTokens, errors |-> << >> ]
  /\ UNCHANGED << collections, now, classifyVars, tokensResolved, resolutionErrors,
                  todo, resolverVars, output, prev, hostVars >>

\* const visited = new Set(); resolveRef(tokenPath, modeName, tokensRaw, bucket, visited, [], errors)
StartTask ==
  /\ pc = "anyorder"
  /\ Cardinality(par.tasks) < MaxInFlight
  /\ \E c \in par.pending :
       par' = [ par EXCEPT
                  !.pending = @ \ { c },
                  !.tasks = @ \cup { [ cell |-> c,
                                       stack |-> << NewFrame(c.bucket, c.tokenPath, c.modeName,
                                                             { }, << >>) >>,
                                       visited |-> { }, chain |-> << >>, ret |-> JNull ] } ]
  /\ UNCHANGED << collections, now, pc, classifyVars, tokensResolved, resolutionErrors,
                  todo, resolverVars, output, prev, hostVars >>

\* The innermost invocation of one call in flight runs to its return or its recursive call.
TaskBody ==
  /\ pc = "anyorder"
  /\ \E t \in par.tasks :
       /\ t.stack # << >>
       /\ t.stack[Len(t.stack)].at = "entry"
       /\ LET top == t.stack[Len(t.stack)]
              r == resolveRef(top.tokenPath, t.cell.modeName, tokensRaw, t.cell.bucket,
                              t.visited, t.chain, par.errors)
              t2 == [ t EXCEPT
                        !.visited = r.visited,
                        !.chain = r.chain,
                        !.ret = IF r.act = "return" THEN r.ret ELSE @,
                        !.stack = IF r.act = "return"
                                  THEN SubSeq(@, 1, Len(@) - 1)
                                  ELSE [ @ EXCEPT ![Len(@)].at = "called" ]
                                       \o << NewFrame(t.cell.bucket, r.refPath, t.cell.modeName,
                                                      r.visited, r.chain) >> ]
          IN  par' = [ par EXCEPT !.tasks = (@ \ { t }) \cup { t2 }, !.errors = r.errors ]
  /\ UNCHANGED << collections, now, pc, classifyVars, tokensResolved, resolutionErrors,
                  todo, resolverVars, output, prev, hostVars >>

\* A recursive call of one call in flight has returned.
TaskUnwind ==
  /\ pc = "anyorder"
  /\ \E t \in par.tasks :
       /\ t.stack # << >>
       /\ t.stack[Len(t.stack)].at = "called"
       /\ LET r == resolveRefAfterCall(t.stack[Len(t.stack)].pathKey, t.ret, t.visited, t.chain)
              t2 == [ t EXCEPT !.visited = r.visited, !.chain = r.chain, !.ret = r.ret,
                               !.stack = SubSeq(@, 1, Len(@) - 1) ]
          IN  par' = [ par EXCEPT !.tasks = (@ \ { t }) \cup { t2 } ]
  /\ UNCHANGED << collections, now, pc, classifyVars, tokensResolved, resolutionErrors,
                  todo, resolverVars, output, prev, hostVars >>

\* res[tokenPath][modeName] = the cell of the value a top-level call returned.
TaskStore ==
  /\ pc = "anyorder"
  /\ \E t \in par.tasks :
       /\ t.stack = << >>
       /\ LET b == t.cell.bucket
              res == Get(par.resolved, b)
              row == IF Has(res, t.cell.tokenPath) THEN Get(res, t.cell.tokenPath) ELSE EmptyObj
          IN  par' = [ par EXCEPT
                         !.tasks = @ \ { t },
                         !.resolved = Set(@, b, Set(res, t.cell.tokenPath,
                                                   Set(row, t.cell.modeName,
                                                       resolvedCell(b, t.ret)))) ]
  /\ UNCHANGED << collections, now, pc, classifyVars, tokensResolved, resolutionErrors,
                  todo, resolverVars, output, prev, hostVars >>

NextAnyOrder == Next \/ BeginAnyOrder \/ StartTask \/ TaskBody \/ TaskUnwind \/ TaskStore

SpecAnyOrder == InitAnyOrder /\ [][NextAnyOrder]_vars

(***************************************************************************)
(* Vocabulary of the properties                                            *)
(***************************************************************************)

KeySet(o) == { o.e[i].k : i \in 1..Len(o.e) }

Buckets == { K_color, K_spacing, K_radius }

\* The (bucket, path, mode) triples of the raw table of an export model.
Cells(out) ==
  UNION { UNION { { << b, p, m >> : m \in KeySet(Get(Get(out.tokensRaw, b), p)) } :
                    p \in KeySet(Get(out.tokensRaw, b)) } :
          b \in Buckets }

RawCell(out, c) == Get(Get(Get(out.tokensRaw, c[1]), c[2]), c[3])

ResolvedCellOf(out, c) == Get(Get(Get(out.tokensResolved, c[1]), c[2]), c[3])

\* What a token entry offers for a requested mode: its value under that
\* name, else its only value, else nothing.
Offered(entry, m) ==
  IF m \in KeySet(entry) THEN Get(entry, m)
  ELSE IF Cardinality(KeySet(entry)) = 1
       THEN Get(entry, CHOOSE k \in KeySet(entry) : TRUE)
       ELSE JNull

\* The alias chain from path p under mode m in a bucket's table: the tokens
\* passed (trail) and how it ends.
RECURSIVE Walk(_, _, _, _)
Walk(table, p, m, trail) ==
  IF \E i \in 1..Len(trail) : trail[i] = p
  THEN [ end |-> "cycle", at |-> p, value |-> JNull, trail |-> trail ]
  ELSE IF p \notin KeySet(table)
  THEN [ end |-> "missing", at |-> p, value |-> JNull, trail |-> trail ]
  ELSE LET v == Offered(Get(table, p), m)
       IN  IF v = JNull
           THEN [ end |-> "mismatch", at |-> p, value |-> JNull, trail |-> Append(trail, p) ]
           ELSE IF Has(v, K_ref)
           THEN Walk(table, Get(v, K_ref).s, m, Append(trail, p))
           ELSE [ end |-> "literal", at |-> p, value |-> v, trail |-> Append(trail, p) ]

WalkOf(out, c) == Walk(Get(out.tokensRaw, c[1]), c[2], c[3], << >>)

\* The resolved form of a literal: its hex in the color bucket, { value } elsewhere.
LiteralCell(b, lit) ==
  IF b = K_color THEN JStr(Get(lit, K_hex).s)
  ELSE JObj(<< [ k |-> K_value, v |-> Get(lit, K_value) ] >>)

IsResolutionError(e) == "reason" \in DOMAIN e

IsDuplicateError(e) == "type" \in DOMAIN e

ErrorSet(out) == { out.errors[i] : i \in 1..Len(out.errors) }

Done == pc = "done"

(***************************************************************************)
(* C1  Every cell whose alias chain (same bucket, same requested mode,     *)
(* single-mode fallback at each hop) ends at a literal without revisiting  *)
(* a token holds that literal in tokensResolved (hex for color, { value }  *)
(* for spacing and radius); an alias and its target agree for that mode.   *)
(***************************************************************************)
C1_ChainEndsAtLiteral ==
  Done =>
    \A c \in Cells(output) :
      LET w == WalkOf(output, c)
      IN  w.end = "literal" =>
            /\ ResolvedCellOf(output, c) = LiteralCell(c[1], w.value)
            /\ \A i \in 2..Len(w.trail) :
                 << c[1], w.trail[i], c[3] >> \in Cells(output) =>
                   ResolvedCellOf(output, << c[1], w.trail[i], c[3] >>)
                     = ResolvedCellOf(output, c)

\* A chain of two alias hops ended at a literal, some hop by the fallback.
C1_Witness ==
  /\ Done
  /\ \E c \in Cells(output) :
       /\ WalkOf(output, c).end = "literal"
       /\ Len(WalkOf(output, c).trail) >= 3
       /\ ResolvedCellOf(output, c) # JNull

(***************************************************************************)
(* C2  Every token on an alias cycle resolves to null under the cycle's    *)
(* mode and has a Cycle error naming it; a cell whose chain meets no cycle *)
(* gets no Cycle error and, when it ends at a literal, is not null.        *)
(***************************************************************************)
OnCycle(out, c) == WalkOf(out, c).end = "cycle" /\ WalkOf(out, c).at = c[2]

C2_CycleIsNullWithError ==
  Done =>
    \A c \in Cells(output) :
      /\ OnCycle(output, c) =>
           /\ ResolvedCellOf(output, c) = JNull
           /\ \E e \in ErrorSet(output) :
                /\ IsResolutionError(e)
                /\ e.reason = "cycle"
                /\ e.tokenPath = c[2]
                /\ e.requestedModeName = c[3]
      /\ (\A d \in Cells(output) :
            (d[2] = c[2] /\ d[3] = c[3]) => WalkOf(output, d).end # "cycle") =>
           /\ ~ \E e \in ErrorSet(output) :
                  /\ IsResolutionError(e)
                  /\ e.reason = "cycle"
                  /\ e.chain[1] = c[2]
                  /\ e.requestedModeName = c[3]
           /\ WalkOf(output, c).end = "literal" => ResolvedCellOf(output, c) # JNull

\* Two tokens alias each other and a third token of the bucket resolves.
C2_Witness ==
  /\ Done
  /\ \E c \in Cells(output), d \in Cells(output) :
       /\ OnCycle(output, c)
       /\ Len(WalkOf(output, c).trail) = 2
       /\ d[1] = c[1] /\ d[3] = c[3]
       /\ WalkOf(output, d).end = "literal"
       /\ ResolvedCellOf(output, d) # JNull

(***************************************************************************)
(* C3  Single-mode fallback: when an invocation reaches a token whose      *)
(* entry lacks the requested mode name and has exactly one mode key, it    *)
(* uses that single value and appends no mode-mismatch error: a literal is *)
(* returned without any error, an alias is followed.                       *)
(***************************************************************************)
FallbackHop ==
  /\ stack # << >>
  /\ stack[Len(stack)].at = "entry"
  /\ stack[Len(stack)].pathKey \notin visited
  /\ Has(Get(tokensRaw, cur.bucket), stack[Len(stack)].tokenPath)
  /\ LET entry == Get(Get(tokensRaw, cur.bucket), stack[Len(stack)].tokenPath)
     IN  cur.modeName \notin KeySet(entry) /\ Cardinality(KeySet(entry)) = 1

C3_SingleModeFallback ==
  [][ FallbackHop =>
        LET table == Get(tokensRaw, cur.bucket)
            entry == Get(table, stack[Len(stack)].tokenPath)
            v == Get(entry, CHOOSE k \in KeySet(entry) : TRUE)
        IN  IF Has(v, K_ref)
            THEN IF Get(v, K_ref).s \in KeySet(table)
                 THEN /\ resolutionErrors' = resolutionErrors
                      /\ Len(stack') = Len(stack) + 1
                      /\ stack'[Len(stack')].tokenPath = Get(v, K_ref).s
                 ELSE /\ Len(resolutionErrors') = Len(resolutionErrors) + 1
                      /\ resolutionErrors'[Len(resolutionErrors')].reason = "missing token"
            ELSE /\ resolutionErrors' = resolutionErrors
                 /\ Len(stack') = Len(stack) - 1
                 /\ resolvedCell(cur.bucket, ret') = LiteralCell(cur.bucket, v) ]_vars

\* A token requested under "Dark" aliases a token defined only under
\* "default" and has resolved to that token's value, with no error at all.
C3_Witness ==
  /\ Done
  /\ output.errors = << >>
  /\ \E c \in Cells(output) :
       /\ c[3] = << "D", "a", "r", "k" >>
       /\ Has(RawCell(output, c), K_ref)
       /\ LET q == Get(RawCell(output, c), K_ref).s
          IN  /\ q \in KeySet(Get(output.tokensRaw, c[1]))
              /\ KeySet(Get(Get(output.tokensRaw, c[1]), q)) = { S_default }
              /\ ~Has(Get(Get(Get(output.tokensRaw, c[1]), q), S_default), K_ref)
              /\ ResolvedCellOf(output, c)
                   = LiteralCell(c[1], Get(Get(Get(output.tokensRaw, c[1]), q), S_default))

(***************************************************************************)
(* C4  When n >= 1 distinct variables routed to one bucket normalise to    *)
(* the same token path, errors holds exactly n - 1 DuplicateTokenPath      *)
(* entries for that bucket and path, and the raw and resolved tables hold  *)
(* under that path only the values of the variable that came first.        *)
(***************************************************************************)
VariableAt(cols, i) == cols[VarList(cols)[i].c].variables[VarList(cols)[i].v]

CollectionAt(cols, i) == cols[VarList(cols)[i].c]

Claimants(cols, b, p) ==
  { i \in 1..Len(VarList(cols)) :
      /\ routeBucket(CollectionAt(cols, i), VariableAt(cols, i)) = b
      /\ nameToTokenPath(VariableAt(cols, i).name) = p }

DistinctIds(cols) ==
  \A i, j \in 1..Len(VarList(cols)) :
    VariableAt(cols, i).id = VariableAt(cols, j).id => i = j

DuplicatesOf(out, b, p) ==
  { i \in 1..Len(out.errors) :
      /\ IsDuplicateError(out.errors[i])
      /\ out.errors[i].type = "DuplicateTokenPath"
      /\ out.errors[i].bucket = b
      /\ out.errors[i].tokenPath = p }

Min(S) == CHOOSE x \in S : \A y \in S : x <= y

C4_FirstClaimantWins ==
  (Done /\ DistinctIds(collections)) =>
    \A b \in Buckets :
      \A p \in { nameToTokenPath(VariableAt(collections, i).name) :
                   i \in 1..Len(VarList(collections)) } :
        LET cl == Claimants(collections, b, p)
        IN  cl # { } =>
              LET f == Min(cl)
                  own == sortObjectKeys(fillEntry(CollectionAt(collections, f),
                                                  VariableAt(collections, f),
                                                  buildVarIdToTokenPath(collections)))
              IN  /\ Cardinality(DuplicatesOf(output, b, p)) = Cardinality(cl) - 1
                  /\ Get(Get(output.tokensRaw, b), p) = own
                  /\ KeySet(Get(Get(output.tokensResolved, b), p)) = KeySet(own)
                  /\ \A m \in KeySet(own) :
                       ~Has(Get(own, m), K_ref) =>
                         Get(Get(Get(output.tokensResolved, b), p), m)
                           = LiteralCell(b, Get(own, m))

\* Three variables with different values claimed one path of one bucket.
C4_Witness ==
  /\ Done
  /\ \E b \in Buckets :
       \E i, j, k \in 1..Len(VarList(collections)) :
         LET p == nameToTokenPath(VariableAt(collections, i).name)
         IN  /\ i < j /\ j < k
             /\ { i, j, k } \subseteq Claimants(collections, b, p)
             /\ VariableAt(collections, i).valuesPerMode # VariableAt(collections, j).valuesPerMode
             /\ Cardinality(DuplicatesOf(output, b, p)) = 2

(***************************************************************************)
(* C5  buildExportModel returns a complete model: tokensResolved has the   *)
(* bucket, path and mode keys of tokensRaw, and every null cell has a      *)
(* resolution error with that cell's mode whose chain starts at its path.  *)
(***************************************************************************)
C5_CompleteModel ==
  Done =>
    /\ \A b \in Buckets :
         /\ KeySet(Get(output.tokensResolved, b)) = KeySet(Get(output.tokensRaw, b))
         /\ \A p \in KeySet(Get(output.tokensRaw, b)) :
              KeySet(Get(Get(output.tokensResolved, b), p))
                = KeySet(Get(Get(output.tokensRaw, b), p))
    /\ KeySet(output.tokensResolved) = KeySet(output.tokensRaw)
    /\ \A c \in Cells(output) :
         ResolvedCellOf(output, c) = JNull =>
           \E e \in ErrorSet(output) :
             /\ IsResolutionError(e)
             /\ e.requestedModeName = c[3]
             /\ e.chain # << >>
             /\ e.chain[1] = c[2]

\* An export with a cell that is null for a mode mismatch behind an alias,
\* and a cell that resolved.
C5_Witness ==
  /\ Done
  /\ \E c \in Cells(output) : ResolvedCellOf(output, c) # JNull
  /\ \E c \in Cells(output) :
       /\ ResolvedCellOf(output, c) = JNull
       /\ WalkOf(output, c).end = "mismatch"
       /\ Len(WalkOf(output, c).trail) >= 2

(***************************************************************************)
(* C7  Every exit of a resolveRef invocation, successful or failing and    *)
(* after any recursion, leaves visited and chain exactly as they were on   *)
(* entry; when the top-level call returns both are empty.                  *)
(***************************************************************************)
C7_RestoredOnExit ==
  [][ Len(stack') < Len(stack) =>
        /\ visited' = stack[Len(stack)].enteredVisited
        /\ chain' = stack[Len(stack)].enteredChain
        /\ stack' = << >> => (visited' = { } /\ chain' = << >>) ]_vars

\* A top-level call that recursed and failed has returned, the error recorded.
C7_Witness ==
  /\ cur # NoCell
  /\ stack = << >>
  /\ invocations >= 3
  /\ ret = JNull
  /\ resolutionErrors # << >>
  /\ visited = { }
  /\ chain = << >>

(***************************************************************************)
(* C6  As the specification states it: every top-level resolveRef call     *)
(* terminates, and it makes at most as many resolveRef invocations as the  *)
(* bucket has token paths.                                                 *)
(***************************************************************************)
NumPaths(b) == Cardinality(KeySet(Get(tokensRaw, b)))

C6_AtMostBucketSize ==
  /\ [](cur # NoCell => invocations <= NumPaths(cur.bucket))
  /\ (stack # << >>) ~> (stack = << >>)

(***************************************************************************)
(* C6  Every top-level resolveRef call terminates; it makes at most as     *)
(* many invocations as the bucket has token paths, plus one when the chain *)
(* runs into a cycle (the invocation that finds the revisited token), and  *)
(* never has more invocations active than that.                            *)
(***************************************************************************)
C6_AtMostBucketSizePlusOne ==
  /\ [](cur # NoCell =>
          LET w == Walk(Get(tokensRaw, cur.bucket), cur.tokenPath, cur.modeName, << >>)
              extra == IF w.end = "cycle" THEN 1 ELSE 0
          IN  /\ invocations <= NumPaths(cur.bucket) + extra
              /\ Len(stack) <= NumPaths(cur.bucket) + extra)
  /\ (stack # << >>) ~> (stack = << >>)

\* A cycle through every token of the bucket: one invocation more than paths.
C6_Witness ==
  /\ cur # NoCell
  /\ stack = << >>
  /\ NumPaths(cur.bucket) >= 2
  /\ invocations = NumPaths(cur.bucket) + 1

(***************************************************************************)
(* C9  As the specification states it: two runs of buildExportModel on the *)
(* same snapshot return identical output, meta included.                   *)
(***************************************************************************)
SameSnapshot(i) == prev[i].collections = collections

C9_IdenticalOutput ==
  Done => \A i \in 1..Len(prev) : SameSnapshot(i) => output = prev[i].output

(***************************************************************************)
(* C9  Two runs of buildExportModel on the same snapshot return the same   *)
(* collections, tokensRaw, tokensResolved and errors, key order included,  *)
(* and the same meta except for meta.exportedAt, which is the time of the  *)
(* run.                                                                    *)
(***************************************************************************)
C9_IdenticalButExportedAt ==
  Done =>
    \A i \in 1..Len(prev) :
      SameSnapshot(i) =>
        /\ output.collections = prev[i].output.collections
        /\ output.tokensRaw = prev[i].output.tokensRaw
        /\ output.tokensResolved = prev[i].output.tokensResolved
        /\ output.errors = prev[i].output.errors
        /\ output.meta.pluginVersion = prev[i].output.meta.pluginVersion
        /\ DOMAIN output.meta = DOMAIN prev[i].output.meta
        /\ DOMAIN output = DOMAIN prev[i].output

\* A second run on the same snapshot, at a later time, with errors to repeat.
C9_Witness ==
  /\ Done
  /\ prev # << >>
  /\ SameSnapshot(1)
  /\ output.meta.exportedAt # prev[1].output.meta.exportedAt
  /\ \E i, j \in 1..Len(output.errors) :
       IsDuplicateError(output.errors[i]) /\ IsResolutionError(output.errors[j])

(***************************************************************************)
(* C10  As the specification states it: tokensRaw, tokensResolved and      *)
(* errors are the same in whatever order the collections, the variables of *)
(* a collection and the entries of valuesPerMode are enumerated.           *)
(***************************************************************************)
SameTables(i) ==
  /\ output.tokensRaw = prev[i].output.tokensRaw
  /\ output.tokensResolved = prev[i].output.tokensResolved
  /\ output.errors = prev[i].output.errors

C10_StableUnderReordering ==
  Done => \A i \in 1..Len(prev) : SameTables(i)

(***************************************************************************)
(* C10  When variable ids are unique, no variable has two valuesPerMode    *)
(* entries with the same output mode key, and no two variables are routed  *)
(* to the same bucket under the same token path, tokensRaw, tokensResolved *)
(* and errors are the same in whatever order the collections, the          *)
(* variables of a collection and the entries of valuesPerMode are          *)
(* enumerated.                                                             *)
(***************************************************************************)
NoCollision(cols) ==
  /\ DistinctIds(cols)
  /\ \A i \in 1..Len(VarList(cols)) :
       LET col == CollectionAt(cols, i)
           e == VariableAt(cols, i).valuesPerMode.e
       IN  \A a, b \in 1..Len(e) :
             getOutputModeKey(col, modeNameOf(col, e[a].k))
               = getOutputModeKey(col, modeNameOf(col, e[b].k)) => a = b
  /\ \A i, j \in 1..Len(VarList(cols)) :
       LET b == routeBucket(CollectionAt(cols, i), VariableAt(cols, i))
       IN  ( /\ b # << >>
             /\ b = routeBucket(CollectionAt(cols, j), VariableAt(cols, j))
             /\ nameToTokenPath(VariableAt(cols, i).name)
                  = nameToTokenPath(VariableAt(cols, j).name) ) => i = j

C10_StableWithoutCollision ==
  (Done /\ NoCollision(collections)) => \A i \in 1..Len(prev) : SameTables(i)

\* A second run enumerated the same variables in another order; the tables
\* hold several tokens and the pass recorded an error.
C10_Witness ==
  /\ Done
  /\ prev # << >>
  /\ NoCollision(collections)
  /\ prev[1].collections # collections
  /\ Len(VarList(collections)) >= 2
  /\ Cardinality(KeySet(Get(output.tokensRaw, K_color))) >= 2
  /\ output.errors # << >>

(***************************************************************************)
(* C8  Resolving the (bucket, path, mode) pairs in any order and           *)
(* interleaving, each call with its own visited set and chain and all      *)
(* appending to one error list, gives every pair the resolved value of the *)
(* sorted sequential pass and the same errors up to order.                 *)
(***************************************************************************)
AnyOrderDone == pc = "anyorder" /\ par.pending = { } /\ par.tasks = { }

Occurrences(errs, e) == Cardinality({ i \in 1..Len(errs) : errs[i] = e })

C8_AnyOrderSameResult ==
  AnyOrderDone =>
    /\ \A c \in PairsOf(tokensRaw) :
         /\ Has(Get(par.resolved, c.bucket), c.tokenPath)
         /\ Has(Get(Get(par.resolved, c.bucket), c.tokenPath), c.modeName)
         /\ Get(Get(Get(par.resolved, c.bucket), c.tokenPath), c.modeName)
              = Get(Get(Get(tokensResolved, c.bucket), c.tokenPath), c.modeName)
    /\ Len(par.errors) = Len(resolutionErrors)
    /\ \A i \in 1..Len(resolutionErrors) :
         Occurrences(par.errors, resolutionErrors[i])
           = Occurrences(resolutionErrors, resolutionErrors[i])

\* The pass finished in an order other than the sorted one: its errors came
\* in another order than the sorted pass recorded them, and a pair resolved.
C8_Witness ==
  /\ AnyOrderDone
  /\ Len(par.errors) >= 2
  /\ par.errors # resolutionErrors
  /\ \E c \in PairsOf(tokensRaw) :
       Get(Get(Get(par.resolved, c.bucket), c.tokenPath), c.modeName) # JNull

(***************************************************************************)
(* C11  In the returned errors every DuplicateTokenPath error precedes     *)
(* every resolution error, and the resolution errors come in the order of  *)
(* the pass: one per null cell, the cells taken by bucket (color, spacing, *)
(* radius), then by ascending token path, then by ascending mode name.     *)
(***************************************************************************)
PassBucketRank(b) == IF b = K_color THEN 1 ELSE IF b = K_spacing THEN 2 ELSE 3

CellBefore(c, d) ==
  \/ PassBucketRank(c[1]) < PassBucketRank(d[1])
  \/ /\ c[1] = d[1]
     /\ \/ StrLess(c[2], d[2])
        \/ c[2] = d[2] /\ StrLess(c[3], d[3])

RECURSIVE SortCells(_)
SortCells(S) ==
  IF S = { } THEN << >>
  ELSE LET first == CHOOSE c \in S : \A d \in S \ { c } : CellBefore(c, d)
       IN  << first >> \o SortCells(S \ { first })

NullCells(out) == { c \in Cells(out) : ResolvedCellOf(out, c) = JNull }

ResolutionErrorsOf(out) == SelectSeq(out.errors, IsResolutionError)

C11_ErrorsInPassOrder ==
  Done =>
    /\ \A i, j \in 1..Len(output.errors) :
         (IsDuplicateError(output.errors[i]) /\ IsResolutionError(output.errors[j])) => i < j
    /\ LET res == ResolutionErrorsOf(output)
           nulls == SortCells(NullCells(output))
       IN  /\ Len(res) = Len(nulls)
           /\ \A k \in 1..Len(res) :
                /\ res[k].chain[1] = nulls[k][2]
                /\ res[k].requestedModeName = nulls[k][3]

\* An export with a duplicate error and resolution errors of two buckets.
C11_Witness ==
  /\ Done
  /\ \E i \in 1..Len(output.errors) : IsDuplicateError(output.errors[i])
  /\ \E c, d \in NullCells(output) : c[1] # d[1]
  /\ Len(ResolutionErrorsOf(output)) >= 2

(***************************************************************************)
(* C12  Bucket routing: a COLOR variable is placed in color; a FLOAT       *)
(* variable in spacing if its collection name contains "spacing", else in  *)
(* radius if the collection name contains "radius", else by its own name   *)
(* (case-insensitive substring); a FLOAT matching neither and a variable   *)
(* of another type are placed nowhere and appear in no error.  Every       *)
(* variable is placed in at most one bucket.                               *)
(***************************************************************************)
ClaimedBuckets(col, v) ==
  IF v.resolvedType = "COLOR" THEN { K_color }
  ELSE IF v.resolvedType = "FLOAT"
  THEN IF includes(toLowerCase(col.name), K_spacing) THEN { K_spacing }
       ELSE IF includes(toLowerCase(col.name), K_radius) THEN { K_radius }
       ELSE { b \in { K_spacing, K_radius } : includes(toLowerCase(v.name), b) }
  ELSE { }

\* The buckets in which variable i claimed its path or was rejected as a duplicate.
PlacedIn(i) ==
  LET v == VariableAt(collections, i)
      p == nameToTokenPath(v.name)
  IN  { b \in Buckets :
          \/ p \in DOMAIN tokenPathToFirst[b] /\ tokenPathToFirst[b][p].varId = v.id
          \/ \E k \in 1..Len(duplicateErrors) :
               duplicateErrors[k].bucket = b /\ duplicateErrors[k].newVarId = v.id }

C12_BucketRouting ==
  (Done /\ DistinctIds(collections)) =>
    \A i \in 1..Len(VarList(collections)) :
      LET claimed == ClaimedBuckets(CollectionAt(collections, i), VariableAt(collections, i))
          p == nameToTokenPath(VariableAt(collections, i).name)
      IN  /\ PlacedIn(i) \subseteq claimed
          /\ Cardinality(PlacedIn(i)) <= 1
          /\ claimed # { } => PlacedIn(i) # { }
          /\ \A b \in PlacedIn(i) : p \in KeySet(Get(output.tokensRaw, b))
          /\ claimed = { } =>
               /\ \A e \in ErrorSet(output) :
                    IsDuplicateError(e) =>
                      (e.newVarId # VariableAt(collections, i).id
                       /\ e.existingVarId # VariableAt(collections, i).id)
               /\ \A b \in Buckets :
                    p \in KeySet(Get(output.tokensRaw, b)) =>
                      \E j \in 1..Len(VarList(collections)) : j # i /\ b \in PlacedIn(j)

\* A FLOAT variable whose name says "radius" sits in a collection whose name
\* says "spacing" and was placed in spacing; another variable was placed nowhere.
C12_Witness ==
  /\ Done
  /\ \E i, j \in 1..Len(VarList(collections)) :
       /\ VariableAt(collections, i).resolvedType = "FLOAT"
       /\ includes(toLowerCase(VariableAt(collections, i).name), K_radius)
       /\ ~includes(toLowerCase(VariableAt(collections, i).name), K_spacing)
       /\ PlacedIn(i) = { K_spacing }
       /\ PlacedIn(j) = { }

(***************************************************************************)
(* C13  Buckets are separate namespaces: two variables of the same token   *)
(* path placed in different buckets give no DuplicateTokenPath error, and  *)
(* each has its own entry in its bucket's raw and resolved tables.         *)
(***************************************************************************)
SamePathOtherBucket(i, j) ==
  /\ i # j
  /\ nameToTokenPath(VariableAt(collections, i).name)
       = nameToTokenPath(VariableAt(collections, j).name)
  /\ ClaimedBuckets(CollectionAt(collections, i), VariableAt(collections, i)) # { }
  /\ ClaimedBuckets(CollectionAt(collections, j), VariableAt(collections, j)) # { }
  /\ ClaimedBuckets(CollectionAt(collections, i), VariableAt(collections, i))
       \cap ClaimedBuckets(CollectionAt(collections, j), VariableAt(collections, j)) = { }

OwnEntry(i) ==
  sortObjectKeys(fillEntry(CollectionAt(collections, i), VariableAt(collections, i),
                           buildVarIdToTokenPath(collections)))

C13_BucketsAreNamespaces ==
  (Done /\ DistinctIds(collections)) =>
    \A i, j \in 1..Len(VarList(collections)) :
      SamePathOtherBucket(i, j) =>
        LET vi == VariableAt(collections, i)
            vj == VariableAt(collections, j)
            p == nameToTokenPath(vi.name)
        IN  /\ ~ \E e \in ErrorSet(output) :
                   /\ IsDuplicateError(e)
                   /\ { e.existingVarId, e.newVarId } = { vi.id, vj.id }
            /\ \E b \in ClaimedBuckets(CollectionAt(collections, i), vi) :
                 /\ p \in KeySet(Get(output.tokensRaw, b))
                 /\ p \in KeySet(Get(output.tokensResolved, b))
                 /\ (\A k \in 1..Len(VarList(collections)) :
                       (k # i /\ nameToTokenPath(VariableAt(collections, k).name) = p)
                         => SamePathOtherBucket(i, k))
                      => Get(Get(output.tokensRaw, b), p) = OwnEntry(i)

\* A color token and a radius token share a path; each holds its own literal.
C13_Witness ==
  /\ Done
  /\ output.errors = << >>
  /\ \E p \in KeySet(Get(output.tokensRaw, K_color)) :
       /\ p \in KeySet(Get(output.tokensRaw, K_radius))
       /\ \E m \in KeySet(Get(Get(output.tokensResolved, K_color), p)) :
            Get(Get(Get(output.tokensResolved, K_color), p), m).t = "str"
       /\ \E m \in KeySet(Get(Get(output.tokensResolved, K_radius), p)) :
            Get(Get(Get(output.tokensResolved, K_radius), p), m).t = "obj"

(***************************************************************************)
(* C14  Processing a variable whose identifier already claimed its token   *)
(* path in the bucket changes nothing: no DuplicateTokenPath error is      *)
(* appended and the raw tables stay as the first processing left them.     *)
(***************************************************************************)
\* The classification loop stands at a variable whose id holds its path.
Reprocessing ==
  /\ pc = "classify"
  /\ varIdx <= Len(VarList(collections))
  /\ LET v == VariableAt(collections, varIdx)
         b == routeBucket(CollectionAt(collections, varIdx), v)
     IN  /\ b # << >>
         /\ varIdToTokenPath[v.id] \in DOMAIN tokenPathToFirst[b]
         /\ tokenPathToFirst[b][varIdToTokenPath[v.id]].varId = v.id

C14_ReprocessingIsNoOp ==
  [][ (Reprocessing /\ varIdx' = varIdx + 1)
        => (duplicateErrors' = duplicateErrors /\ tokensRaw' = tokensRaw) ]_vars

(***************************************************************************)
(* C15  Every mode key of every entry of tokensRaw and tokensResolved is   *)
(* the display name of a mode of a collection that lists the entry's       *)
(* variable, or "default"; a mode id is never a key.                       *)
(***************************************************************************)
ModeNamesOf(col) == { col.modes[i].name : i \in 1..Len(col.modes) }

ModeIdsOf(col) == { col.modes[i].id : i \in 1..Len(col.modes) }

\* The listings of the variable that holds path p in bucket b.
ListingsOf(b, p) ==
  { i \in 1..Len(VarList(collections)) :
      /\ VariableAt(collections, i).id = tokenPathToFirst[b][p].varId
      /\ b \in ClaimedBuckets(CollectionAt(collections, i), VariableAt(collections, i)) }

\* The mode keys of the entry of path p in bucket b, raw and resolved.
EntryKeys(b, p) ==
  KeySet(Get(Get(output.tokensRaw, b), p)) \cup KeySet(Get(Get(output.tokensResolved, b), p))

KeyFor(col, modeId, m) ==
  IF modeId \in ModeIdsOf(col)
  THEN \E k \in 1..Len(col.modes) :
         /\ col.modes[k].id = modeId
         /\ m = (IF Len(col.modes) = 1 /\ col.modes[k].name = S_Mode1
                 THEN S_default ELSE col.modes[k].name)
  ELSE m = modeId

OnlyModeOne(col) == Len(col.modes) = 1 /\ col.modes[1].name = S_Mode1

\* Variable i holds its path in bucket b.
HoldsPath(i, b) ==
  LET p == nameToTokenPath(VariableAt(collections, i).name)
  IN  /\ p \in DOMAIN tokenPathToFirst[b]
      /\ tokenPathToFirst[b][p].varId = VariableAt(collections, i).id

C16_DefaultKeyForOnlyModeOne ==
  (Done /\ DistinctIds(collections)) =>
    \A i \in 1..Len(VarList(collections)) : \A b \in Buckets :
      HoldsPath(i, b) =>
        LET v == VariableAt(collections, i)
            col == CollectionAt(collections, i)
            entry == Get(Get(output.tokensRaw, b), nameToTokenPath(v.name))
        IN  \A k \in 1..Len(col.modes) :
              LET tv == IF col.modes[k].id \in KeySet(v.valuesPerMode)
                        THEN buildTokenValueRaw(Get(v.valuesPerMode, col.modes[k].id).value,
                                                Get(v.valuesPerMode, col.modes[k].id).isAlias,
                                                buildVarIdToTokenPath(collections),
                                                v.resolvedType)
                        ELSE JNull
              IN  tv # JNull =>
                    IF col.modes[k].name = S_Mode1 /\ OnlyModeOne(col)
                    THEN /\ S_default \in KeySet(entry)
                         /\ Get(entry, S_default) = sortObjectKeys(tv)
                         /\ S_Mode1 \notin KeySet(entry)
                    ELSE /\ col.modes[k].name \in KeySet(entry)
                         /\ Get(entry, col.modes[k].name) = sortObjectKeys(tv)
                         /\ S_default \notin KeySet(entry)

\* "Mode 1" is a key for a variable of a collection of two modes, "default"
\* for one of a collection whose only mode is "Mode 1", and the name of the
\* only mode for a collection whose only mode has another name.
C16_Witness ==
  /\ Done
  /\ \E i, j \in 1..Len(VarList(collections)) : \E b, d \in Buckets :
       /\ HoldsPath(i, b) /\ HoldsPath(j, d)
       /\ Len(CollectionAt(collections, i).modes) = 2
       /\ S_Mode1 \in KeySet(Get(Get(output.tokensRaw, b),
                                 nameToTokenPath(VariableAt(collections, i).name)))
       /\ \/ /\ OnlyModeOne(CollectionAt(collections, j))
             /\ KeySet(Get(Get(output.tokensRaw, d),
                           nameToTokenPath(VariableAt(collections, j).name))) = { S_default }
          \/ /\ Len(CollectionAt(collections, j).modes) = 1
             /\ ~OnlyModeOne(CollectionAt(collections, j))
             /\ S_default \notin KeySet(Get(Get(output.tokensRaw, d),
                                            nameToTokenPath(VariableAt(collections, j).name)))

(***************************************************************************)
(* C17  A value that is an alias to an identifier without a known token    *)
(* path is stored under no key and brings no error in classification, and  *)
(* the final errors list holds a resolution error for that token path and  *)
(* mode.                                                                   *)
(***************************************************************************)
\* The value of variable i under the mode of id modeId is an alias to an id
\* that the lookup does not know.
AliasToUnknownId(i, modeId) ==
  LET v == VariableAt(collections, i)
  IN  /\ modeId \in KeySet(v.valuesPerMode)
      /\ Get(v.valuesPerMode, modeId).isAlias
      /\ Get(v.valuesPerMode, modeId).value.id \notin DOMAIN buildVarIdToTokenPath(collections)

\* An error of the resolver that names path p under the requested mode m.
ErrorFor(p, m) ==
  \E e \in ErrorSet(output) :
    /\ IsResolutionError(e)
    /\ e.requestedModeName = m
    /\ \/ e.tokenPath = p
       \/ \E n \in 1..Len(e.chain) : e.chain[n] = p

C17_UnknownAliasReportedLater ==
  (Done /\ DistinctIds(collections)) =>
    \A i \in 1..Len(VarList(collections)) : \A b \in Buckets :
      HoldsPath(i, b) =>
        LET v == VariableAt(collections, i)
            col == CollectionAt(collections, i)
            p == nameToTokenPath(v.name)
        IN  \A k \in 1..Len(col.modes) :
              AliasToUnknownId(i, col.modes[k].id) =>
                LET m == IF OnlyModeOne(col) THEN S_default ELSE col.modes[k].name
                IN  /\ m \notin KeySet(Get(Get(output.tokensRaw, b), p))
                    /\ ~ \E e \in ErrorSet(output) :
                           IsDuplicateError(e) /\ e.newVarId = v.id
                    /\ ErrorFor(p, m)

(***************************************************************************)
(* C18  When resolveRef reaches an alias whose target path has no entry in *)
(* the raw table of the bucket, it returns null and appends one "missing   *)
(* token" error whose tokenPath is the target path and whose chain ends    *)
(* with the source path followed by the target path.                       *)
(***************************************************************************)
\* The invocation about to run stands at a token whose value for the
\* requested mode is an alias to a path that the bucket does not hold.
AtDanglingAlias ==
  /\ stack # << >>
  /\ stack[Len(stack)].at = "entry"
  /\ LET tp == stack[Len(stack)].tokenPath
         table == Get(tokensRaw, cur.bucket)
     IN  /\ pathKeyOf(cur.bucket, tp, cur.modeName) \notin visited
         /\ Has(table, tp)
         /\ Offered(Get(table, tp), cur.modeName) # JNull
         /\ Has(Offered(Get(table, tp), cur.modeName), K_ref)
         /\ ~Has(table, Get(Offered(Get(table, tp), cur.modeName), K_ref).s)

DanglingTarget ==
  Get(Offered(Get(Get(tokensRaw, cur.bucket), stack[Len(stack)].tokenPath), cur.modeName),
      K_ref).s

C18_DanglingNamesTarget ==
  [][ (AtDanglingAlias /\ stack' # stack) =>
        /\ ret' = JNull
        /\ Len(stack') = Len(stack) - 1
        /\ Len(resolutionErrors') = Len(resolutionErrors) + 1
        /\ LET e == resolutionErrors'[Len(resolutionErrors')]
               n == Len(e.chain)
           IN  /\ e.reason = "missing token"
               /\ e.tokenPath = DanglingTarget
               /\ n >= 2
               /\ e.chain[n - 1] = stack[Len(stack)].tokenPath
               /\ e.chain[n] = DanglingTarget ]_vars

(***************************************************************************)
(* C19  A "mode mismatch" error is appended only for a token path that has *)
(* an entry in the bucket, no value under the requested mode name and more *)
(* than one mode; an entry of fewer than two modes never gives one.        *)
(***************************************************************************)
\* This step appends a "mode mismatch" error.
MismatchAppended ==
  /\ Len(resolutionErrors') = Len(resolutionErrors) + 1
  /\ resolutionErrors'[Len(resolutionErrors')].reason = "mode mismatch"

\* The mode keys of the entry the appended error names.
MismatchedKeys ==
  KeySet(Get(Get(tokensRaw, cur.bucket), resolutionErrors'[Len(resolutionErrors')].tokenPath))

C19_MismatchNeedsTwoModes ==
  [][ MismatchAppended =>
        LET e == resolutionErrors'[Len(resolutionErrors')]
        IN  /\ Has(Get(tokensRaw, cur.bucket), e.tokenPath)
            /\ e.requestedModeName \notin MismatchedKeys
            /\ Cardinality(MismatchedKeys) > 1 ]_vars

\* C19 as the code has it: the entry named by a "mode mismatch" error has no
\* value under the requested mode name and does not have exactly one mode:
\* it has more than one, or none at all.
C19_MismatchNeedsNotOneMode ==
  [][ MismatchAppended =>
        LET e == resolutionErrors'[Len(resolutionErrors')]
        IN  /\ Has(Get(tokensRaw, cur.bucket), e.tokenPath)
            /\ e.requestedModeName \notin MismatchedKeys
            /\ Cardinality(MismatchedKeys) # 1 ]_vars

\* The export reported a mismatch at an entry of two modes and one at an
\* entry without any mode.
C19_Witness ==
  /\ Done
  /\ \E e, f \in ErrorSet(output) :
       /\ IsResolutionError(e) /\ e.reason = "mode mismatch"
       /\ IsResolutionError(f) /\ f.reason = "mode mismatch"
       /\ e.tokenPath \in KeySet(Get(output.tokensRaw, K_color))
       /\ f.tokenPath \in KeySet(Get(output.tokensRaw, K_color))
       /\ KeySet(Get(Get(output.tokensRaw, K_color), e.tokenPath)) = { }
       /\ Cardinality(KeySet(Get(Get(output.tokensRaw, K_color), f.tokenPath))) = 2

(***************************************************************************)
(* C20  In the export model every cell of tokensResolved.color is a hex    *)
(* string (#rrggbb or #rrggbbaa) or null, and every cell of                *)
(* tokensResolved.spacing and tokensResolved.radius is { value: number }   *)
(* or null, whatever the aliases of the document point at.                 *)
(***************************************************************************)
IsHexString(x) ==
  /\ x.t = "str"
  /\ Len(x.s) \in { 7, 9 }
  /\ x.s[1] = "#"
  /\ \A i \in 2..Len(x.s) : \E d \in 1..Len(HexDigits) : x.s[i] = HexDigits[d]

IsValueObject(x) ==
  /\ x.t = "obj"
  /\ Keys(x) = << K_value >>
  /\ Get(x, K_value).t = "num"

C20_CellsHaveBucketType ==
  Done =>
    \A b \in Buckets :
      \A p \in KeySet(Get(output.tokensResolved, b)) :
        \A m \in KeySet(Get(Get(output.tokensResolved, b), p)) :
          LET x == Get(Get(Get(output.tokensResolved, b), p), m)
          IN  \/ x = JNull
              \/ IF b = K_color THEN IsHexString(x) ELSE IsValueObject(x)

\* A color token holds a literal under one mode and an alias to a number
\* variable under the other; the number variable is a radius token.
C20_Witness ==
  /\ Done
  /\ \E c, d, n \in Cells(output) :
       /\ c[1] = K_color /\ d[1] = K_color /\ c[2] = d[2] /\ n[1] = K_radius
       /\ IsHexString(ResolvedCellOf(output, c))
       /\ Has(RawCell(output, d), K_ref)
       /\ Get(RawCell(output, d), K_ref).s = n[2]
       /\ ResolvedCellOf(output, d) = JNull
       /\ IsValueObject(ResolvedCellOf(output, n))

(***************************************************************************)
(* C21  Every alias stored in the raw table of a bucket names the token    *)
(* path of the variable it references, and that variable was routed to the *)
(* bucket of the variable that holds the alias.                            *)
(***************************************************************************)
\* The positions in VarList of the variables of id vid.
ListedAs(vid) ==
  { j \in 1..Len(VarList(collections)) : VariableAt(collections, j).id = vid }

C21_AliasStaysInBucket ==
  (Done /\ DistinctIds(collections)) =>
    \A i \in 1..Len(VarList(collections)) : \A b \in Buckets :
      HoldsPath(i, b) =>
        LET v == VariableAt(collections, i)
            col == CollectionAt(collections, i)
            entry == Get(Get(output.tokensRaw, b), nameToTokenPath(v.name))
        IN  \A k \in 1..Len(col.modes) :
              LET m == IF OnlyModeOne(col) THEN S_default ELSE col.modes[k].name
              IN  (m \in KeySet(entry) /\ Has(Get(entry, m), K_ref)) =>
                    \E j \in ListedAs(Get(v.valuesPerMode, col.modes[k].id).value.id) :
                      /\ Get(Get(entry, m), K_ref).s
                           = nameToTokenPath(VariableAt(collections, j).name)
                      /\ b \in PlacedIn(j)

(***************************************************************************)
(* C22  The empty token path is a key like any other: a variable whose     *)
(* name normalises to "" has a raw and a resolved entry under "" in its    *)
(* bucket (or is rejected as a duplicate under ""), and an alias to such a *)
(* variable is stored as an alias to "" and has a resolved cell.           *)
(***************************************************************************)
C22_EmptyPathIsAKey ==
  (Done /\ DistinctIds(collections)) =>
    \A i \in 1..Len(VarList(collections)) :
      nameToTokenPath(VariableAt(collections, i).name) = << >> =>
        /\ \A b \in ClaimedBuckets(CollectionAt(collections, i), VariableAt(collections, i)) :
             /\ << >> \in KeySet(Get(output.tokensRaw, b))
             /\ << >> \in KeySet(Get(output.tokensResolved, b))
             /\ b \in PlacedIn(i)
        /\ \A j \in 1..Len(VarList(collections)) : \A b \in Buckets :
             HoldsPath(j, b) =>
               LET v == VariableAt(collections, j)
                   col == CollectionAt(collections, j)
                   p == nameToTokenPath(v.name)
               IN  \A k \in 1..Len(col.modes) :
                     LET m == IF OnlyModeOne(col) THEN S_default ELSE col.modes[k].name
                         x == Get(v.valuesPerMode, col.modes[k].id)
                     IN  (x.isAlias /\ x.value.id = VariableAt(collections, i).id) =>
                           /\ m \in KeySet(Get(Get(output.tokensRaw, b), p))
                           /\ Get(Get(Get(output.tokensRaw, b), p), m)
                                = JObj(<< [ k |-> K_ref, v |-> JStr(<< >>) ] >>)
                           /\ m \in KeySet(Get(Get(output.tokensResolved, b), p))

(***************************************************************************)
(* C23  nameToTokenPath is defined for every name and normalising its      *)
(* result again changes nothing; the result has no "/", no whitespace and  *)
(* no capital letter, and an empty slash segment leaves no empty           *)
(* dot-separated segment in it.                                            *)
(***************************************************************************)
CharsOf(str) == { str[i] : i \in 1..Len(str) }

\* The name of the first variable of the document and the path the lookup
\* holds for it.
NameUnderTest == VariableAt(collections, 1).name

PathUnderTest == varIdToTokenPath[VariableAt(collections, 1).id]

C23_NormalizeIsIdempotent ==
  pc # "start" =>
    /\ nameToTokenPath(PathUnderTest) = PathUnderTest
    /\ "/" \notin CharsOf(PathUnderTest)
    /\ " " \notin CharsOf(PathUnderTest)
    /\ CharsOf(PathUnderTest) \cap UpperChars = { }
    /\ ("." \notin CharsOf(NameUnderTest) /\ PathUnderTest # << >>)
         => \A k \in 1..Len(split(PathUnderTest, ".")) : split(PathUnderTest, ".")[k] # << >>

\* A name with an empty first segment, a capital and whitespace inside a
\* segment has been normalised to another string that is not empty.
C23_Witness ==
  /\ Done
  /\ NameUnderTest \in Names
  /\ Len(NameUnderTest) >= 1
  /\ NameUnderTest[1] = "/"
  /\ CharsOf(NameUnderTest) \cap UpperChars # { }
  /\ \E i \in 2..(Len(NameUnderTest) - 1) :
       /\ NameUnderTest[i] = " "
       /\ NameUnderTest[i - 1] \notin { " ", "/" }
       /\ NameUnderTest[i + 1] \notin { " ", "/" }
  /\ PathUnderTest # << >>
  /\ "-" \in CharsOf(PathUnderTest)
  /\ << >> \notin KeySet(Get(output.tokensRaw, K_color))

(***************************************************************************)
(* C24  rgbaToHex writes two hex digits per channel and an alpha channel   *)
(* exactly when a < 1: "#rrggbb" (7 characters) for a >= 1 or a missing    *)
(* alpha, "#rrggbbaa" (9 characters) for a < 1; the resolved cell of a     *)
(* literal colour is the hex stored in its raw value.                      *)
(***************************************************************************)
\* The number written by two hex digits.
HexPairValue(hi, lo) ==
  16 * ((CHOOSE d \in 1..Len(HexDigits) : HexDigits[d] = hi) - 1)
  + ((CHOOSE d \in 1..Len(HexDigits) : HexDigits[d] = lo) - 1)

\* The colour of the first variable, its raw value and its resolved cell.
ColorUnderTest ==
  VariableAt(collections, 1).valuesPerMode.e[1].v.value

RawUnderTest ==
  Get(Get(Get(output.tokensRaw, K_color), PathUnderTest), S_default)

CellUnderTest ==
  Get(Get(Get(output.tokensResolved, K_color), PathUnderTest), S_default)

\* The nearest integer to x / 1000 * 255, halves upwards.
Nearest255(x) == CHOOSE n \in 0..255 : 2000 * n - 1000 <= 510 * x /\ 510 * x < 2000 * n + 1000

C24_HexOfColor ==
  Done =>
    LET c == ColorUnderTest
        hex == Get(RawUnderTest, K_hex).s
        opaque == "a" \notin DOMAIN c \/ c.a >= 1000
    IN  /\ IsHexString(JStr(hex))
        /\ Len(hex) = (IF opaque THEN 7 ELSE 9)
        /\ HexPairValue(hex[2], hex[3]) = Nearest255(c.r)
        /\ HexPairValue(hex[4], hex[5]) = Nearest255(c.g)
        /\ HexPairValue(hex[6], hex[7]) = Nearest255(c.b)
        /\ ~opaque => HexPairValue(hex[8], hex[9]) = Nearest255(c.a)
        /\ CellUnderTest = JStr(hex)

\* A translucent colour gave nine characters ending in the digits of its
\* alpha, and the alias to it resolved to the same string.
C24_Witness ==
  /\ Done
  /\ "a" \in DOMAIN ColorUnderTest
  /\ ColorUnderTest.a = 999
  /\ ColorUnderTest.r = 0
  /\ ColorUnderTest.b = 1000
  /\ Len(CellUnderTest.s) = 9
  /\ SubSeq(CellUnderTest.s, 8, 9) = << "f", "f" >>
  /\ \E c \in Cells(output) :
       /\ Has(RawCell(output, c), K_ref)
       /\ ResolvedCellOf(output, c) = CellUnderTest

(***************************************************************************)
(* C30  Every DuplicateTokenPath error names as existingVarId the first    *)
(* variable, in input order, that claims the path in the bucket, and as    *)
(* newVarId another variable processed after it; with three or more        *)
(* claimants every error names the first one, never a rejected duplicate.  *)
(***************************************************************************)
\* The variables that go to bucket b under path p, by the routing rules.
ClaimantsOf(b, p) ==
  { i \in 1..Len(VarList(collections)) :
      /\ nameToTokenPath(VariableAt(collections, i).name) = p
      /\ ClaimedBuckets(CollectionAt(collections, i), VariableAt(collections, i)) = { b } }

C30_ErrorNamesFirstClaimant ==
  (Done /\ DistinctIds(collections)) =>
    \A n \in 1..Len(output.errors) :
      IsDuplicateError(output.errors[n]) =>
        LET e == output.errors[n]
            cl == ClaimantsOf(e.bucket, e.tokenPath)
        IN  /\ cl # { }
            /\ e.existingVarId = VariableAt(collections, Min(cl)).id
            /\ e.existingOriginalName = VariableAt(collections, Min(cl)).name
            /\ e.existingCollectionName = CollectionAt(collections, Min(cl)).name
            /\ e.newVarId # e.existingVarId
            /\ \E j \in cl :
                 /\ j > Min(cl)
                 /\ e.newVarId = VariableAt(collections, j).id
                 /\ e.newOriginalName = VariableAt(collections, j).name
                 /\ e.newCollectionName = CollectionAt(collections, j).name
            /\ \A k \in 1..(n - 1) :
                 IsDuplicateError(output.errors[k]) => output.errors[k].newVarId # e.newVarId

\* Three variables claimed one path: the two errors name the first of them
\* as existing and the second and the third, in that order, as new.
C30_Witness ==
  /\ Done
  /\ Len(output.errors) >= 2
  /\ IsDuplicateError(output.errors[1])
  /\ IsDuplicateError(output.errors[2])
  /\ output.errors[1].bucket = output.errors[2].bucket
  /\ output.errors[1].tokenPath = output.errors[2].tokenPath
  /\ output.errors[1].existingVarId = VarIdSeq[1]
  /\ output.errors[2].existingVarId = VarIdSeq[1]
  /\ output.errors[1].newVarId = VarIdSeq[2]
  /\ output.errors[2].newVarId = VarIdSeq[3]

(***************************************************************************)
(* C28  sortObjectKeys returns a mapping of the same keys and the same     *)
(* leaf values as its input, the keys of every nested mapping in ascending *)
(* order at every depth and every array in its original element order;     *)
(* applying it twice gives what applying it once gives.                    *)
(***************************************************************************)
\* a and b hold the same keys at every depth and the same leaves, arrays
\* being leaves.
RECURSIVE SameContent(_, _)
SameContent(a, b) ==
  IF a.t = "obj"
  THEN /\ b.t = "obj"
       /\ KeySet(a) = KeySet(b)
       /\ Len(a.e) = Len(b.e)
       /\ \A k \in KeySet(a) : SameContent(Get(a, k), Get(b, k))
  ELSE a = b

\* The keys of o and of every mapping nested in o enumerate in ascending
\* order of their code units.
RECURSIVE AscendingDeep(_)
AscendingDeep(o) ==
  o.t = "obj" =>
    /\ \A i \in 1..(Len(o.e) - 1) : StrLess(o.e[i].k, o.e[i + 1].k)
    /\ \A i \in 1..Len(o.e) : AscendingDeep(o.e[i].v)

C28_SortedAscending ==
  Done =>
    /\ SameContent(tokensRaw, output.tokensRaw)
    /\ SameContent(tokensResolved, output.tokensResolved)
    /\ AscendingDeep(output.tokensRaw)
    /\ AscendingDeep(output.tokensResolved)
    /\ sortObjectKeys(output.tokensRaw) = output.tokensRaw
    /\ sortObjectKeys(output.tokensResolved) = output.tokensResolved

\* C28 as the code has it: in every mapping the keys that are canonical
\* array indices ("2", "10") come first, in ascending numeric order, and the
\* other keys follow in ascending order of their code units.
KeyBefore(k1, k2) ==
  IF IsIndexKey(k1) /\ IsIndexKey(k2)
  THEN Len(k1) < Len(k2) \/ (Len(k1) = Len(k2) /\ StrLess(k1, k2))
  ELSE IF IsIndexKey(k1) \/ IsIndexKey(k2) THEN IsIndexKey(k1)
  ELSE StrLess(k1, k2)

RECURSIVE EnumerationOrderDeep(_)
EnumerationOrderDeep(o) ==
  o.t = "obj" =>
    /\ \A i \in 1..(Len(o.e) - 1) : KeyBefore(o.e[i].k, o.e[i + 1].k)
    /\ \A i \in 1..Len(o.e) : EnumerationOrderDeep(o.e[i].v)

C28_SortedButIndicesFirst ==
  Done =>
    /\ SameContent(tokensRaw, output.tokensRaw)
    /\ SameContent(tokensResolved, output.tokensResolved)
    /\ EnumerationOrderDeep(output.tokensRaw)
    /\ EnumerationOrderDeep(output.tokensResolved)
    /\ sortObjectKeys(output.tokensRaw) = output.tokensRaw
    /\ sortObjectKeys(output.tokensResolved) = output.tokensResolved

\* The color bucket holds the paths "2" and "10" in this order, the modes of
\* a path were written Light before Dark and are returned Dark before
\* Light, and an rgba array is returned as it was.
C28_Witness ==
  /\ Done
  /\ Keys(Get(output.tokensRaw, K_color)) = << << "2" >>, << "1", "0" >> >>
  /\ \E p \in KeySet(Get(tokensRaw, K_color)) :
       /\ Len(Keys(Get(Get(tokensRaw, K_color), p))) = 2
       /\ Keys(Get(Get(output.tokensRaw, K_color), p))
            = reverse(Keys(Get(Get(tokensRaw, K_color), p)))
       /\ \E m \in KeySet(Get(Get(tokensRaw, K_color), p)) :
            /\ Has(Get(Get(Get(tokensRaw, K_color), p), m), K_rgba)
            /\ Keys(Get(Get(Get(tokensRaw, K_color), p), m)) = << K_rgba, K_hex >>
            /\ Keys(Get(Get(Get(output.tokensRaw, K_color), p), m)) = << K_hex, K_rgba >>
            /\ Get(Get(Get(Get(output.tokensRaw, K_color), p), m), K_rgba)
                 = Get(Get(Get(Get(tokensRaw, K_color), p), m), K_rgba)

(***************************************************************************)
(* C29  buildExportModel leaves its input as it was: no step of a run      *)
(* changes the sequence of collections, the modes array of a collection    *)
(* or its order, or the valuesPerMode of a variable.                       *)
(***************************************************************************)
C29_InputUnchanged == [][collections' = collections]_vars

\* The run is over; the input lists the modes of a collection in another
\* order than the output, which has them sorted by id.
C29_Witness ==
  /\ Done
  /\ \E i \in 1..Len(collections) :
       /\ Len(collections[i].modes) = 2
       /\ output.collections[i].modes # collections[i].modes
       /\ output.collections[i].modes = reverse(collections[i].modes)
  /\ \E c \in Cells(output) : ResolvedCellOf(output, c) # JNull

(***************************************************************************)
(* The plugin around the engine: messages, export runs, host promises      *)
(***************************************************************************)

\* resolveRef run to its return, recursive calls included.
RECURSIVE runResolveRef(_, _, _, _, _, _, _)
runResolveRef(tokenPath, requestedModeName, raw, bucket, vis, chn, errors) ==
  CHOOSE result \in
    { IF r.act = "return"
      THEN [ ret |-> r.ret, visited |-> r.visited, chain |-> r.chain, errors |-> r.errors ]
      ELSE CHOOSE unwound \in
             { [ ret |-> u.ret, visited |-> u.visited, chain |-> u.chain,
                 errors |-> inner.errors ] :
               <<inner, u>> \in
                 { <<called, resolveRefAfterCall(pathKeyOf(bucket, tokenPath, requestedModeName),
                                                 called.ret, called.visited, called.chain)>> :
                   called \in { runResolveRef(r.refPath, requestedModeName, raw, bucket,
                                              r.visited, r.chain, r.errors) } } } : TRUE :
      r \in { resolveRef(tokenPath, requestedModeName, raw, bucket, vis, chn, errors) } } : TRUE

\* buildExportModel as one synchronous call: 3) the classification loops,
\* 4) the resolution pass, 5) the export model.
buildExportModel(cols, clock) ==
  LET RECURSIVE classifyFrom(_, _, _, _)
      classifyFrom(vl, lookup, i, acc) ==
        IF i > Len(vl) THEN acc
        ELSE CHOOSE result \in
               { classifyFrom(vl, lookup, i + 1, next) :
                 next \in { classifyVariable(acc.raw, acc.first, acc.dups, lookup,
                                             cols[vl[i].c],
                                             cols[vl[i].c].variables[vl[i].v]) } } : TRUE
      RECURSIVE resolveFrom(_, _, _, _)
      resolveFrom(raw, items, i, acc) ==
        IF i > Len(items) THEN acc
        ELSE CHOOSE result \in
               { resolveFrom(raw, items, i + 1, next) :
                 next \in
                   { IF it.kind = "path"
                     THEN [ resolved |->
                              Set(acc.resolved, it.bucket,
                                  Set(Get(acc.resolved, it.bucket), it.tokenPath, EmptyObj)),
                            errors |-> acc.errors ]
                     ELSE CHOOSE stored \in
                            { [ resolved |->
                                  Set(acc.resolved, it.bucket,
                                      Set(Get(acc.resolved, it.bucket), it.tokenPath,
                                          Set(Get(Get(acc.resolved, it.bucket), it.tokenPath),
                                              it.modeName, resolvedCell(it.bucket, r.ret)))),
                                errors |-> r.errors ] :
                              r \in { runResolveRef(it.tokenPath, it.modeName, raw, it.bucket,
                                                    { }, << >>, acc.errors) } } : TRUE :
                     it \in { items[i] } } } : TRUE
  IN  CHOOSE result \in
        { exportModel(cols, c.raw, p.resolved, c.dups, p.errors, clock) :
          <<c, p>> \in
            { <<classified,
                resolveFrom(classified.raw, PassItems(classified.raw), 1,
                            [ resolved |-> EmptyTokens, errors |-> << >> ])>> :
              classified \in
                { classifyFrom(VarList(cols), buildVarIdToTokenPath(cols), 1,
                               [ raw |-> EmptyTokens, first |-> EmptyFirst,
                                 dups |-> << >> ]) } } } : TRUE

\* Number of messages the UI sends after the start-up run.
MaxMessages == 2

JUndefined == [ t |-> "undefined" ]

\* The messages of the UI: the three the handler serves (EXPORT with the
\* settings the user chose), an EXPORT without settings, and a message of
\* another type.
Messages ==
  { [ type |-> "REFRESH", settings |-> JUndefined ],
    [ type |-> "EXPORT", settings |-> JUndefined ],
    [ type |-> "EXPORT_REQUEST", settings |-> JUndefined ],
    [ type |-> "RESIZE", settings |-> JUndefined ] }
  \cup { [ type |-> "EXPORT", settings |-> Settings(TRUE, TRUE, FALSE, "flutter") ] }

\* What figma.getLocalTextStylesAsync resolves to.
LocalTextStyles ==
  << [ name |-> << "H", "e", "a", "d", "i", "n", "g", "/", "X", "L" >>,
       fontName |-> [ family |-> << "I", "n", "t", "e", "r" >> ],
       fontSize |-> 32 ] >>

\* An export run: logLocalVariableCollections().then(runExportWithRaw).catch(notify).
\* phase is the promise the chain waits for ("listing": the collections,
\* "reading": their variables, "styles": the text styles) or how it ended.
\* received records what the plugin state was when the run was launched:
\* lastSettings, and how many runs had entered runExportWithRaw.
NewRun(msg) ==
  [ msg |-> msg, phase |-> "listing", settings |-> JUndefined, exportModel |-> NoOutput,
    received |-> [ lastSettings |-> lastSettings,
                   entered |-> Cardinality({ j \in 1..Len(requests) :
                                              requests[j].settings # JUndefined }) ] ]

Launches(msg) ==
  \/ msg.type \in { "STARTUP", "REFRESH", "EXPORT_REQUEST" }
  \/ msg.type = "EXPORT" /\ msg.settings # JUndefined

\* The settings argument of runExportWithRaw, evaluated when the then-callback runs.
settingsArgument(msg, last) ==
  IF msg.type = "REFRESH" THEN last
  ELSE IF msg.type = "EXPORT" THEN msg.settings
  ELSE DEFAULT_SETTINGS

\* runExportWithRaw from its entry to the await of the text styles.
runExportWithRawHead(rawOutput, settings, clock) ==
  LET webOnly == settings.targets.web /\ ~settings.targets.ios /\ ~settings.targets.android
  IN  CHOOSE result \in
        { [ model EXCEPT
              !.meta = [ exportedAt |-> model.meta.exportedAt,
                         pluginVersion |-> model.meta.pluginVersion,
                         targets |-> settings.targets,
                         mobileFramework |-> IF webOnly THEN "none"
                                             ELSE settings.mobileFramework ] ] :
          model \in { buildExportModel(rawOutput, clock) } } : TRUE

\* runExportWithRaw after the await: the font tables and the message.
\* detectTargetPlatforms is an async function: a call returns a Promise at
\* once. Its body awaits page.loadAsync() for the first page before it can
\* return, so the Promise is pending when the caller goes on; the caller
\* neither awaits it nor attaches a callback.
detectTargetPlatforms == [ t |-> "promise", state |-> "pending" ]

runExportWithRawTail(model, textStyles, settings) ==
  LET K_default == << "d", "e", "f", "a", "u", "l", "t" >>
      RECURSIVE fontTablesFrom(_, _)
      fontTablesFrom(i, acc) ==
        IF i > Len(textStyles) THEN acc
        ELSE CHOOSE result \in
               { fontTablesFrom(i + 1,
                   [ font |-> Set(acc.font, tokenPath,
                                  JObj(<< [ k |-> K_default,
                                            v |-> JStr(textStyles[i].fontName.family) ] >>)),
                     fontSize |-> Set(acc.fontSize, tokenPath,
                                      JObj(<< [ k |-> K_default,
                                                v |-> JNum(textStyles[i].fontSize) ] >>)),
                     family |-> Set(acc.family, tokenPath,
                                    JStr(textStyles[i].fontName.family)) ]) :
                 tokenPath \in { nameToTokenPath(textStyles[i].name) } } : TRUE
  IN  CHOOSE message \in
        { [ type |-> "EXPORT_READY",
            payload |->
              [ exportJson |->
                  [ meta |-> model.meta,
                    collections |-> model.collections,
                    tokensRaw |-> model.tokensRaw,
                    tokensResolved |->
                      Set(Set(model.tokensResolved, << "f", "o", "n", "t" >>,
                              sortObjectKeys(t.font)),
                          << "f", "o", "n", "t", "S", "i", "z", "e" >>,
                          sortObjectKeys(t.fontSize)),
                    errors |-> model.errors,
                    fontSizeToFontFamily |-> sortObjectKeys(t.family) ],
                cursorPrompt |-> "generateCursorPrompt",
                settings |-> settings,
                detectedPlatforms |-> detectTargetPlatforms ] ] :
          t \in { fontTablesFrom(1, [ font |-> EmptyObj, fontSize |-> EmptyObj,
                                      family |-> EmptyObj ]) } } : TRUE

\* The catch callback: figma.notify("Export failed: " + String(err), { error: true }).
notifyFailure(i) == [ request |-> i, message |-> "Export failed", error |-> TRUE ]

\* The start-up run at the end of the script.
StartUp ==
  /\ requests = << >>
  /\ requests' = << NewRun([ type |-> "STARTUP", settings |-> JUndefined ]) >>
  /\ UNCHANGED << collections, now, pc, classifyVars, tokensResolved, resolutionErrors,
                  todo, resolverVars, output, prev, par, lastSettings, posted, notified >>

\* figma.ui.onmessage, while fewer than maxRuns runs and messages were taken.
OnMessage(maxRuns) ==
  /\ requests # << >>
  /\ Len(requests) < maxRuns
  /\ \E msg \in Messages :
       requests' = Append(requests,
                          IF Launches(msg) THEN NewRun(msg)
                          ELSE [ NewRun(msg) EXCEPT !.phase = "ignored" ])
  /\ UNCHANGED << collections, now, pc, classifyVars, tokensResolved, resolutionErrors,
                  todo, resolverVars, output, prev, par, lastSettings, posted, notified >>

\* getLocalVariableCollectionsAsync has resolved; the variables are requested.
CollectionsListed(i) ==
  /\ i \in 1..Len(requests)
  /\ requests[i].phase = "listing"
  /\ requests' = [ requests EXCEPT ![i].phase = "reading" ]
  /\ UNCHANGED << collections, now, pc, classifyVars, tokensResolved, resolutionErrors,
                  todo, resolverVars, output, prev, par, lastSettings, posted, notified >>

\* logLocalVariableCollections has resolved: the then-callback runs
\* runExportWithRaw up to its await.
CollectionsResolved(i) ==
  /\ i \in 1..Len(requests)
  /\ requests[i].phase = "reading"
  /\ LET settings == settingsArgument(requests[i].msg, lastSettings)
     IN  /\ lastSettings' = settings
         /\ requests' = [ requests EXCEPT
                            ![i].phase = "styles",
                            ![i].settings = settings,
                            ![i].exportModel =
                              runExportWithRawHead(collections, settings, now) ]
  /\ UNCHANGED << collections, now, pc, classifyVars, tokensResolved, resolutionErrors,
                  todo, resolverVars, output, prev, par, posted, notified >>

\* getLocalTextStylesAsync has resolved: the rest of runExportWithRaw runs.
\* The payload carries the promise detectTargetPlatforms() returned; the host
\* either takes the message or throws on it, and then the catch callback runs.
TextStylesResolved(i) ==
  /\ i \in 1..Len(requests)
  /\ requests[i].phase = "styles"
  /\ \E accepted \in BOOLEAN :
       IF accepted
       THEN /\ posted' = Append(posted,
                           [ request |-> i,
                             message |-> runExportWithRawTail(requests[i].exportModel,
                                                              LocalTextStyles,
                                                              requests[i].settings) ])
            /\ requests' = [ requests EXCEPT ![i].phase = "posted" ]
            /\ notified' = notified
       ELSE /\ notified' = Append(notified, notifyFailure(i))
            /\ requests' = [ requests EXCEPT ![i].phase = "failed" ]
            /\ posted' = posted
  /\ UNCHANGED << collections, now, pc, classifyVars, tokensResolved, resolutionErrors,
                  todo, resolverVars, output, prev, par, lastSettings >>

\* The catch callback that notes the failure and tells nobody.
HostRejected_silent(i) ==
  /\ i \in 1..Len(requests)
  /\ requests[i].phase \in { "listing", "reading", "styles" }
  /\ requests' = [ requests EXCEPT ![i].phase = "failed" ]
  /\ UNCHANGED << collections, now, pc, classifyVars, tokensResolved, resolutionErrors,
                  todo, resolverVars, output, prev, par, lastSettings, posted, notified >>

\* A host promise of the run has rejected: the catch callback runs.
HostRejected(i) ==
  /\ i \in 1..Len(requests)
  /\ requests[i].phase \in { "listing", "reading", "styles" }
  /\ notified' = Append(notified, notifyFailure(i))
  /\ requests' = [ requests EXCEPT ![i].phase = "failed" ]
  /\ UNCHANGED << collections, now, pc, classifyVars, tokensResolved, resolutionErrors,
                  todo, resolverVars, output, prev, par, lastSettings, posted >>

\* A host promise of the run settles: it rejects or it resolves.
Settle(i) ==
  HostRejected(i) \/ CollectionsListed(i) \/ CollectionsResolved(i) \/ TextStylesResolved(i)

InitHost ==
  /\ collections = NameSnapshot(<< "A", "/", "b" >>)
  /\ now = MaxClock
  /\ InitEngine

NextHost(maxRuns) ==
  \/ StartUp
  \/ OnMessage(maxRuns)
  \/ \E i \in 1..maxRuns : CollectionsListed(i)
  \/ \E i \in 1..maxRuns : CollectionsResolved(i)
  \/ \E i \in 1..maxRuns : TextStylesResolved(i)
  \/ \E i \in 1..maxRuns : HostRejected(i)

SpecHost == InitHost /\ [][NextHost(MaxMessages + 1)]_vars

\* Number of export runs and messages of a behaviour whose host promises
\* are required to settle, the start-up run included.
FairRuns == 2

\* Every host promise settles, and the script runs to its end.
SpecHostFair ==
  /\ InitHost
  /\ [][NextHost(FairRuns)]_vars
  /\ WF_vars(StartUp)
  /\ \A i \in 1..FairRuns : WF_vars(Settle(i))

(***************************************************************************)
(* Claims about the export runs                                            *)
(***************************************************************************)

EngineHasRun(i) == requests[i].exportModel # NoOutput

AwaitsHost(i) == requests[i].phase \in { "listing", "reading", "styles" }

\* C25: in every export run all asynchronous host work (the collections,
\* their variables, the text styles) has completed before buildExportModel
\* starts: a run whose engine has run awaits no host promise any more.
C25_HostWorkBeforeEngine ==
  \A i \in 1..Len(requests) : EngineHasRun(i) => ~AwaitsHost(i)

ExportWithSettings(i) ==
  requests[i].msg.type = "EXPORT" /\ requests[i].msg.settings # JUndefined

RefreshFollows(i, j) ==
  /\ i < j
  /\ ExportWithSettings(i)
  /\ requests[j].msg.type = "REFRESH"
  /\ \A k \in (i + 1)..(j - 1) : requests[k].msg.type \notin { "EXPORT", "EXPORT_REQUEST" }

PostedFor(i) == { n \in 1..Len(posted) : posted[n].request = i }

NotifiedFor(i) == { n \in 1..Len(notified) : notified[n].request = i }

\* C26: a REFRESH received after an EXPORT with settings S, with no EXPORT
\* or EXPORT_REQUEST in between, produces an EXPORT_READY whose settings
\* are S, however the collection steps of the requests interleave.
C26_RefreshUsesExportSettings ==
  \A i, j \in 1..Len(requests) :
    RefreshFollows(i, j) =>
      \A n \in PostedFor(j) :
        posted[n].message.payload.settings = requests[i].msg.settings

Outcomes(i) == Cardinality(PostedFor(i)) + Cardinality(NotifiedFor(i))

\* C27: the start-up run and every REFRESH, EXPORT with settings and
\* EXPORT_REQUEST eventually has exactly one outcome, one EXPORT_READY or one
\* failure notification, never both and never neither, provided the host
\* promises settle; any other message, and an EXPORT without settings,
\* posts nothing and notifies nothing.
C27_ExactlyOneOutcome ==
  /\ [](\A i \in 1..Len(requests) :
          /\ Outcomes(i) <= 1
          /\ ~Launches(requests[i].msg) => Outcomes(i) = 0)
  /\ <>(requests # << >>)
  /\ \A i \in 1..FairRuns :
       (Len(requests) >= i /\ Launches(requests[i].msg)) ~> (Outcomes(i) = 1)

C27_Witness ==
  \E i, k \in 1..Len(requests) :
    /\ Launches(requests[i].msg) /\ Cardinality(PostedFor(i)) = 1 /\ NotifiedFor(i) = { }
    /\ requests[k].msg.type = "EXPORT" /\ ~Launches(requests[k].msg) /\ Outcomes(k) = 0

(***************************************************************************)
(* Claims about the errors of the resolution pass                          *)
(***************************************************************************)

\* Token p of bucket b holds, for the requested mode m, an alias to path q.
AliasEdge(b, p, q, m) ==
  /\ p \in KeySet(Get(tokensRaw, b))
  /\ LET v == Offered(Get(Get(tokensRaw, b), p), m)
     IN  v # JNull /\ Has(v, K_ref) /\ Get(v, K_ref).s = q

\* C31: every resolution error carries the requested mode of the top-level
\* pair and a chain that starts with the top-level token path and follows
\* alias edges of the bucket's raw table; the chain of a cycle error is the
\* chain so far followed by the revisited path, which is its tokenPath and
\* occurs earlier in the chain.
C31_ErrorChainIsAliasPath ==
  [][ Len(resolutionErrors') > Len(resolutionErrors) =>
        LET e == resolutionErrors'[Len(resolutionErrors')]
            n == Len(e.chain)
        IN  /\ Len(resolutionErrors') = Len(resolutionErrors) + 1
            /\ e.requestedModeName = cur.modeName
            /\ n >= 1
            /\ e.chain[1] = cur.tokenPath
            /\ \A k \in 1..(n - 1) :
                 AliasEdge(cur.bucket, e.chain[k], e.chain[k + 1], cur.modeName)
            /\ e.reason = "cycle" =>
                 /\ e.chain = Append(chain, e.tokenPath)
                 /\ e.chain[n] = e.tokenPath
                 /\ \E k \in 1..(n - 1) : e.chain[k] = e.tokenPath ]_vars

\* A cycle error over a chain of three and an error of another kind that
\* was reached through an alias are both recorded.
C31_Witness ==
  /\ \E i \in 1..Len(resolutionErrors) :
       resolutionErrors[i].reason = "cycle" /\ Len(resolutionErrors[i].chain) >= 3
  /\ \E i \in 1..Len(resolutionErrors) :
       resolutionErrors[i].reason # "cycle" /\ Len(resolutionErrors[i].chain) >= 2

\* The cells of tokensResolved that hold null, while the pass runs.
NullsStored ==
  UNION { UNION { { << b, p, m >> :
                    m \in { k \in KeySet(Get(Get(tokensResolved, b), p)) :
                              Get(Get(Get(tokensResolved, b), p), k) = JNull } } :
                  p \in KeySet(Get(tokensResolved, b)) } :
          b \in Buckets }

\* C32: each top-level resolution appends exactly one resolution error when
\* it yields null and none when it yields a value: between two top-level
\* calls the errors are as many as the null cells stored, a call that has
\* returned null has added one and a call that has returned a value none;
\* so the output has as many resolution errors as null cells.
C32_OneErrorPerNullCell ==
  /\ (pc = "resolve" /\ stack = << >>) =>
       Len(resolutionErrors)
         = Cardinality(NullsStored) + (IF cur # NoCell /\ ret = JNull THEN 1 ELSE 0)
  /\ Done =>
       Len(ResolutionErrorsOf(output)) = Cardinality(NullCells(output))

\* The pass has stored a null and a value, and a call that recursed has just
\* returned null.
C32_Witness ==
  /\ pc = "resolve"
  /\ cur # NoCell
  /\ stack = << >>
  /\ ret = JNull
  /\ invocations >= 2
  /\ NullsStored # { }
  /\ \E b \in Buckets : \E p \in KeySet(Get(tokensResolved, b)) :
       \E m \in KeySet(Get(Get(tokensResolved, b), p)) :
         Get(Get(Get(tokensResolved, b), p), m) # JNull

\* C33: during buildExportModel every resolveRef invocation, top-level or
\* recursive, is made for a token path that has an entry in the raw table of
\* the bucket, so the absent-entry exit is never taken: every "missing token"
\* error is appended by the check of an alias target, for a token that has
\* an entry, with the absent target as the last element of its chain.
C33_NoCallForAbsentEntry ==
  /\ [](\A k \in 1..Len(stack) : Has(Get(tokensRaw, cur.bucket), stack[k].tokenPath))
  /\ [][ ( /\ Len(resolutionErrors') = Len(resolutionErrors) + 1
           /\ resolutionErrors'[Len(resolutionErrors')].reason = "missing token" ) =>
         LET e == resolutionErrors'[Len(resolutionErrors')]
             n == Len(e.chain)
             table == Get(tokensRaw, cur.bucket)
         IN  /\ Has(table, e.tokenPath)
             /\ n >= 2
             /\ e.chain[n - 1] = e.tokenPath
             /\ ~Has(table, e.chain[n]) ]_vars

\* A recursive invocation has found the target of its alias absent.
C33_Witness ==
  /\ cur # NoCell
  /\ stack # << >>
  /\ resolutionErrors # << >>
  /\ LET e == resolutionErrors[Len(resolutionErrors)]
     IN  /\ e.reason = "missing token"
         /\ Len(e.chain) >= 3
         /\ e.chain[1] = cur.tokenPath
         /\ e.requestedModeName = cur.modeName
         /\ ~Has(Get(tokensRaw, cur.bucket), e.chain[Len(e.chain)])

(***************************************************************************)
(* Claims about aliases to excluded variables                              *)
(***************************************************************************)

\* Variable j was excluded from bucket b as a duplicate of its token path.
ExcludedFrom(j, b) ==
  LET cl == ClaimantsOf(b, nameToTokenPath(VariableAt(collections, j).name))
  IN  j \in cl /\ j # Min(cl)

\* The modes k of variable i, which holds its path in bucket b, whose value
\* is an alias to a variable excluded from b.
AliasesToExcluded(i, b) ==
  LET v == VariableAt(collections, i)
      col == CollectionAt(collections, i)
  IN  { k \in 1..Len(col.modes) :
          /\ col.modes[k].id \in KeySet(v.valuesPerMode)
          /\ Get(v.valuesPerMode, col.modes[k].id).isAlias
          /\ \E j \in ListedAs(Get(v.valuesPerMode, col.modes[k].id).value.id) :
               ExcludedFrom(j, b) }

\* The key of the k-th mode of the collection of variable i in the output.
OutputKeyOf(i, k) ==
  IF OnlyModeOne(CollectionAt(collections, i)) THEN S_default
  ELSE CollectionAt(collections, i).modes[k].name

\* The path shared by the variable that the k-th mode of variable i references.
SharedPath(i, k) ==
  buildVarIdToTokenPath(collections)[
    Get(VariableAt(collections, i).valuesPerMode,
        CollectionAt(collections, i).modes[k].id).value.id]

\* What the holder of path q in bucket b offers for mode m is a literal.
OffersLiteral(b, q, m) ==
  LET v == Offered(Get(Get(output.tokensRaw, b), q), m)
  IN  v # JNull /\ ~Has(v, K_ref)

\* C34: an alias that references a variable excluded as a duplicate is stored
\* as an alias to the shared token path and resolves, without any resolution
\* error, to the value of the first claimant of that path.
C34_AliasToExcludedResolves ==
  (Done /\ DistinctIds(collections)) =>
    \A i \in 1..Len(VarList(collections)) : \A b \in Buckets :
      HoldsPath(i, b) =>
        \A k \in AliasesToExcluded(i, b) :
          LET p == nameToTokenPath(VariableAt(collections, i).name)
              m == OutputKeyOf(i, k)
              q == SharedPath(i, k)
          IN  /\ m \in KeySet(Get(Get(output.tokensRaw, b), p))
              /\ Get(Get(Get(output.tokensRaw, b), p), m)
                   = JObj(<< [ k |-> K_ref, v |-> JStr(q) ] >>)
              /\ Get(Get(Get(output.tokensResolved, b), p), m) # JNull
              /\ ~ErrorFor(p, m)
              /\ OffersLiteral(b, q, m) =>
                   Get(Get(Get(output.tokensResolved, b), p), m)
                     = LiteralCell(b, Offered(Get(Get(output.tokensRaw, b), q), m))

\* ---------------------------------------------------------------------
\* Claims about the order and the content of what the plugin posts
\* ---------------------------------------------------------------------

\* C35: EXPORT_READY messages are posted in the order in which their
\* requests were received: the response to an earlier request is never
\* posted after the response to a later one.
C35_PostedInRequestOrder ==
  \A n, n2 \in 1..Len(posted) :
    n < n2 => posted[n].request < posted[n2].request

\* The runs other than i that have entered runExportWithRaw.
EnteredBeside(i) ==
  { j \in 1..Len(requests) : j # i /\ requests[j].settings # JUndefined }

\* Run i has failed: a notification was raised for it and nothing was posted.
HasFailed(i) ==
  /\ requests[i].phase = "failed"
  /\ NotifiedFor(i) # { }
  /\ PostedFor(i) = { }

\* C36: when an export request fails (a notification is raised and no
\* EXPORT_READY is posted), lastSettings is what it was before the request
\* was received, as long as no other run has assigned it in between.
C36_FailureKeepsLastSettings ==
  \A i \in 1..Len(requests) :
    (HasFailed(i) /\ Cardinality(EnteredBeside(i)) = requests[i].received.entered)
      => lastSettings = requests[i].received.lastSettings

\* C38: an EXPORT_READY is posted only after the platform detection of its
\* run has completed: payload.detectedPlatforms is the finished detection
\* result, with at least one of web and mobile true.
C38_PostedAfterDetection ==
  \A n \in 1..Len(posted) :
    LET detected == posted[n].message.payload.detectedPlatforms
    IN  /\ detected.t = "result"
        /\ detected.web \/ detected.mobile

\* ---------------------------------------------------------------------
\* Claims about the bookkeeping of a traversal
\* ---------------------------------------------------------------------

\* C37: at every call and return of a traversal the chain holds pairwise
\* distinct token paths and has as many elements as visited, and visited is
\* exactly the set of (bucket, path, requested mode) keys of the chain's
\* paths.
C37_VisitedMirrorsChain ==
  /\ \A k, l \in 1..Len(chain) : k < l => chain[k] # chain[l]
  /\ Len(chain) = Cardinality(visited)
  /\ cur = NoCell => visited = { }
  /\ cur # NoCell =>
       visited = { pathKeyOf(cur.bucket, chain[k], cur.modeName) : k \in 1..Len(chain) }

\* A traversal is two invocations deep: two paths on the chain, two keys in visited.
C37_Witness ==
  /\ cur # NoCell
  /\ Len(chain) >= 2
  /\ Len(stack) >= 2
  /\ Cardinality(visited) = Len(chain)

(***************************************************************************)
(* The consumer of the export: web/styles/tokens.js                        *)
(***************************************************************************)

\* key.replace(/\./g, "-")
toVarSegment(key) == [ i \in 1..Len(key) |-> IF key[i] = "." THEN "-" ELSE key[i] ]

\* `--color-${toVarSegment(tokenKey)}`
getColorVarName(tokenKey) ==
  << "-", "-", "c", "o", "l", "o", "r", "-" >> \o toVarSegment(tokenKey)

\* `--${toVarSegment(tokenKey)}`
getSpacingVarName(tokenKey) == << "-", "-" >> \o toVarSegment(tokenKey)

\* `--${toVarSegment(tokenKey)}`
getRadiusVarName(tokenKey) == << "-", "-" >> \o toVarSegment(tokenKey)

\* Longest generated variable name of the documents that vary two names.
MaxCssLen == 3

\* The names of those documents: every name of up to MaxCssLen characters
\* out of a letter, whitespace and the separator of groups, and one name
\* whose first group is the word "color".
CssNames ==
  UNION { [ 1..n -> { "A", " ", "/" } ] : n \in 0..MaxCssLen }
  \cup { << "c", "o", "l", "o", "r", "/", "A" >> }

\* A document of the collections Base, Spacing and Corner Radius holding two
\* variables with literals: v1 under the name n1 and v2 under the name n2,
\* each a colour of Base (kind "color"), a number of Spacing (kind "spacing")
\* or a number of Corner Radius (kind "radius"); v2 may also be a colour of
\* Base that is an alias to v1 (kind "alias").
CssSnapshot(k1, n1, k2, n2) ==
  LET variable(i, k, n) ==
        [ id |-> VarIdSeq[i], name |-> n,
          resolvedType |-> IF k \in { "color", "alias" } THEN "COLOR" ELSE "FLOAT",
          valuesPerMode |->
            collectValuesPerMode(
              JObj(<< [ k |-> BaseModes[1].id,
                        v |-> IF k = "color" THEN ColorLit(i, 1)
                              ELSE IF k = "alias" THEN Alias(VarIdSeq[1])
                              ELSE NumLit(i, 1) ] >>)) ]
      collectionOf(k) == IF k = "alias" THEN "color" ELSE k
      listed(k) ==
        (IF collectionOf(k1) = k THEN << variable(1, k1, n1) >> ELSE << >>)
        \o (IF collectionOf(k2) = k THEN << variable(2, k2, n2) >> ELSE << >>)
  IN  << [ id |-> << "c", "2" >>, name |-> N_Base, modes |-> BaseModes,
           variables |-> listed("color") ],
         [ id |-> << "c", "3" >>, name |-> N_Spacing, modes |-> BaseModes,
           variables |-> listed("spacing") ],
         [ id |-> << "c", "4" >>, name |-> N_Radius, modes |-> BaseModes,
           variables |-> listed("radius") ] >>

CssSnapshots ==
  { CssSnapshot(k1, n1, k2, n2) :
      k1 \in { "color", "spacing" }, n1 \in CssNames,
      k2 \in { "color", "radius", "alias" }, n2 \in CssNames }

InitCss == collections \in CssSnapshots /\ now = MaxClock /\ InitEngine

SpecCss == InitCss /\ [][Next]_vars

\* ---------------------------------------------------------------------
\* Claims about the consumer's CSS variable names
\* ---------------------------------------------------------------------

\* The exported tokens: the (bucket, token path) pairs of tokensResolved.
ExportedTokens(out) ==
  UNION { { << b, p >> : p \in KeySet(Get(out.tokensResolved, b)) } : b \in Buckets }

\* The CSS variable the consumer derives for a token of a bucket.
CssVarName(bucket, tokenPath) ==
  IF bucket = K_color THEN getColorVarName(tokenPath)
  ELSE IF bucket = K_spacing THEN getSpacingVarName(tokenPath)
  ELSE getRadiusVarName(tokenPath)

\* C39: the consumer's CSS variable naming is injective on the exported
\* tokens: two distinct (bucket, token path) pairs never map to the same
\* CSS variable name through getColorVarName, getSpacingVarName and
\* getRadiusVarName.
C39_CssNamesInjective ==
  Done =>
    \A s, t \in ExportedTokens(output) :
      s # t => CssVarName(s[1], s[2]) # CssVarName(t[1], t[2])

====
